---- MODULE Spec2Model ----
(***************************************************************************)
(* Model of the remote-execution core of the WordPress MCP server:         *)
(*   - the validation helpers of LearnDashManager,                         *)
(*   - the circuit-breaker protected bulk runners (bulk_enroll_users,      *)
(*     bulk_add_to_group, batch_update_lesson_content),                    *)
(*   - command construction (shlex.quote) and the command text that        *)
(*     WPCLIClient.execute hands to the remote shell.                      *)
(*   - the configuration (WordPressConfig), get_clients of the server and  *)
(*     the SSH session of WPCLIClient: connect, disconnect, execute,       *)
(*   - a bulk run on that session, with the calls that block.              *)
(*                                                                         *)
(* Python values are records [t, n, s]: t is the Python type, n the        *)
(* integer payload, s the string payload as a sequence of one-character    *)
(* strings.  Python's 0-based list index i addresses targets[i + 1]; between *)
(* two iterations i is the index the for loop hands out next.              *)
(*                                                                         *)
(* The three bulk runners build differently named reports; the model uses  *)
(* one shape: total (total_users / total_updates), succeeded (enrolled /   *)
(* added / successful), failed, entries (errors / details), aborted.       *)
(***************************************************************************)
EXTENDS Integers, Sequences, FiniteSets, TLC

VARIABLES
    op,                     \* the operation being called ("" before any call)
    pc,                     \* "idle" | "loop" | "done" | "raised"
    exc,                    \* exception that escaped the call ("" if none)
    arg_id,                 \* the scalar id argument (course_id / group_id)
    targets,                \* the list argument (user_ids / updates)
    i,                      \* loop index of the bulk runner (Python, 0-based)
    consecutive_failures,   \* circuit breaker counter
    results,                \* the report being built by the bulk runner
    executed,               \* number of commands handed to cli.execute
    processed,              \* indexes whose loop body was entered, in order
    outcomes,               \* per processed target: "S" (succeeded) or "F" (failed)
    call,                   \* arguments of a single-entity call, or the string to quote
    error,                  \* the error a single-entity call raised (NoError if none)
    cmds,                   \* the commands handed to cli.execute, in order
    text,                   \* a quoted string / command text given to the remote shell
    tokens,                 \* what the remote shell reads from text
    env,                    \* the process environment WordPressConfig.from_env reads
    config,                 \* server.py's global config (NoneV until loaded)
    wp_cli,                 \* server.py's global wp_cli (NoneV until constructed)
    ssh_client,             \* WPCLIClient.ssh_client: 0 is None, k > 0 is clients[k]
    clients,                \* every paramiko.SSHClient constructed so far, by handle
    handshakes,             \* number of network connection attempts started so far
    network,                \* the blocking network call in flight and its answer
    returned,               \* what the last connect / disconnect / execute returned
    post_meta,              \* the remote site's post meta of the lesson under observation
    tasks,                  \* the tool calls the server has been asked to handle
    loop                    \* the call_tool coroutine the event loop is running (0: none)

bulkvars == << i, consecutive_failures, results, processed, outcomes >>
opvars == << call, error, cmds >>
textvars == << text, tokens >>
sitevars == << post_meta, tasks, loop >>
sessvars == << env, config, wp_cli, ssh_client, clients, handshakes, network, returned,
              post_meta, tasks, loop >>

vars == << op, pc, exc, arg_id, targets, i, consecutive_failures, results,
           executed, processed, outcomes, call, error, cmds, text, tokens,
           env, config, wp_cli, ssh_client, clients, handshakes, network, returned,
           post_meta, tasks, loop >>

-----------------------------------------------------------------------------
(* Bounds of the model *)

MaxTargets == 6

-----------------------------------------------------------------------------
(* Python values *)

IntV(k) == [t |-> "int", n |-> k, s |-> << >>]
StrV(str) == [t |-> "str", n |-> 0, s |-> str]
NoneV == [t |-> "none", n |-> 0, s |-> << >>]

SeqsUpTo(S, k) == UNION { [1..m -> S] : m \in 0..k }

-----------------------------------------------------------------------------
(* Validation helpers *)

NoError == [exc |-> "", param |-> "", idx |-> -1, msg |-> "", got |-> NoneV]

ValueError(param, idx, msg, got) ==
    [exc |-> "ValueError", param |-> param, idx |-> idx, msg |-> msg, got |-> got]

NoCall == [name |-> ""]

WPCLIError == [exc |-> "WPCLIError", param |-> "", idx |-> -1,
               msg |-> "wp-cli command failed", got |-> NoneV]

\* isinstance(value, int): bool is a subclass of int
IsInstanceInt(value) == value.t \in { "int", "bool" }

\* a value no validator has seen (an optional argument left out, or a value
\* the operation never validates)
Unvalidated(value) == [ok |-> TRUE, val |-> value, by |-> "", err |-> NoError]

\* Variant of _validate_positive_int without the sign check: any int passes.
_validate_positive_int_no_sign(value, name, idx) ==
    IF ~IsInstanceInt(value)
    THEN [ok |-> FALSE, val |-> value, by |-> "",
          err |-> ValueError(name, idx, "must be a positive integer", value)]
    ELSE [ok |-> TRUE, val |-> value, by |-> "_validate_positive_int", err |-> NoError]

\* isinstance(value, int) and value > 0, else ValueError naming the parameter
_validate_positive_int(value, name, idx) ==
    IF ~IsInstanceInt(value) \/ value.n <= 0
    THEN [ok |-> FALSE, val |-> value, by |-> "",
          err |-> ValueError(name, idx, "must be a positive integer", value)]
    ELSE [ok |-> TRUE, val |-> value, by |-> "_validate_positive_int", err |-> NoError]

\* Python truthiness: None, 0, "" and False are falsy
Truthy(value) ==
    CASE value.t = "none" -> FALSE
      [] value.t \in { "int", "bool", "float" } -> value.n # 0
      [] value.t = "str" -> value.s # << >>
      [] OTHER -> TRUE

Whitespace == { " ", "\n" }

\* value.strip(): leading and trailing whitespace removed
RECURSIVE LStrip(_)
LStrip(str) ==
    IF str # << >> /\ Head(str) \in Whitespace THEN LStrip(Tail(str)) ELSE str

RECURSIVE RStrip(_)
RStrip(str) ==
    IF str # << >> /\ str[Len(str)] \in Whitespace
    THEN RStrip(SubSeq(str, 1, Len(str) - 1)) ELSE str

Strip(str) == RStrip(LStrip(str))

\* must be a str; not blank unless allow_empty; not longer than max_length,
\* where the length is checked only when max_length is truthy
_validate_string(value, name, max_length, allow_empty) ==
    IF value.t # "str"
    THEN [ok |-> FALSE, val |-> value, by |-> "",
          err |-> ValueError(name, -1, "must be a string", value)]
    ELSE IF ~allow_empty /\ Strip(value.s) = << >>
    THEN [ok |-> FALSE, val |-> value, by |-> "",
          err |-> ValueError(name, -1, "cannot be empty", value)]
    ELSE IF Truthy(max_length) /\ Len(value.s) > max_length.n
    THEN [ok |-> FALSE, val |-> value, by |-> "",
          err |-> ValueError(name, -1, "too long", value)]
    ELSE [ok |-> TRUE, val |-> value, by |-> "_validate_string", err |-> NoError]

TITLE_MAX_LENGTH == 200
CONTENT_MAX_LENGTH == 50000

-----------------------------------------------------------------------------
(* Single-entity operations the bulk runners delegate to.  remote is the   *)
(* behaviour of the remote end during the call: "ok" (every command        *)
(* succeeds), "fail1" (the first command raises), "fail2" (the second).    *)

RemoteOutcomes2 == {"ok", "fail1", "fail2"}
RemoteOutcomes1 == {"ok", "fail1"}

\* validate user_id, course_id; two cli.execute calls; {"enrolled": True}
enroll_user(user_id, course_id, remote) ==
    LET v1 == _validate_positive_int(user_id, "user_id", -1)
        v2 == _validate_positive_int(course_id, "course_id", -1)
    IN  IF ~v1.ok THEN [raised |-> TRUE, err |-> v1.err, ncmds |-> 0]
        ELSE IF ~v2.ok THEN [raised |-> TRUE, err |-> v2.err, ncmds |-> 0]
        ELSE IF remote = "fail1" THEN [raised |-> TRUE, err |-> WPCLIError, ncmds |-> 1]
        ELSE IF remote = "fail2" THEN [raised |-> TRUE, err |-> WPCLIError, ncmds |-> 2]
        ELSE [raised |-> FALSE, err |-> NoError, ncmds |-> 2]

\* validate user_id, group_id; two cli.execute calls; {"added": True}
add_user_to_group(user_id, group_id, remote) ==
    LET v1 == _validate_positive_int(user_id, "user_id", -1)
        v2 == _validate_positive_int(group_id, "group_id", -1)
    IN  IF ~v1.ok THEN [raised |-> TRUE, err |-> v1.err, ncmds |-> 0]
        ELSE IF ~v2.ok THEN [raised |-> TRUE, err |-> v2.err, ncmds |-> 0]
        ELSE IF remote = "fail1" THEN [raised |-> TRUE, err |-> WPCLIError, ncmds |-> 1]
        ELSE IF remote = "fail2" THEN [raised |-> TRUE, err |-> WPCLIError, ncmds |-> 2]
        ELSE [raised |-> FALSE, err |-> NoError, ncmds |-> 2]

\* validate lesson_id, title, content, order; "post update" when title is
\* truthy or content is given, then "post meta update" when order is given
update_lesson(lesson_id, title, content, order, remote) ==
    LET v1 == _validate_positive_int(lesson_id, "lesson_id", -1)
        v2 == IF title.t # "none"
              THEN _validate_string(title, "title", IntV(TITLE_MAX_LENGTH), FALSE)
              ELSE Unvalidated(title)
        v3 == IF content.t # "none"
              THEN _validate_string(content, "content", IntV(CONTENT_MAX_LENGTH), TRUE)
              ELSE Unvalidated(content)
        v4 == IF order.t # "none"
              THEN _validate_positive_int(order, "order", -1)
              ELSE Unvalidated(order)
        n1 == IF Truthy(title) \/ content.t # "none" THEN 1 ELSE 0
        n2 == IF order.t # "none" THEN 1 ELSE 0
    IN  IF ~v1.ok THEN [raised |-> TRUE, err |-> v1.err, ncmds |-> 0]
        ELSE IF ~v2.ok THEN [raised |-> TRUE, err |-> v2.err, ncmds |-> 0]
        ELSE IF ~v3.ok THEN [raised |-> TRUE, err |-> v3.err, ncmds |-> 0]
        ELSE IF ~v4.ok THEN [raised |-> TRUE, err |-> v4.err, ncmds |-> 0]
        ELSE IF remote = "fail1" /\ n1 + n2 >= 1
             THEN [raised |-> TRUE, err |-> WPCLIError, ncmds |-> 1]
        ELSE IF remote = "fail2" /\ n1 + n2 >= 2
             THEN [raised |-> TRUE, err |-> WPCLIError, ncmds |-> 2]
        ELSE [raised |-> FALSE, err |-> NoError, ncmds |-> n1 + n2]

-----------------------------------------------------------------------------
(* Bulk runners: bulk_enroll_users and bulk_add_to_group *)

MAX_CONSECUTIVE_FAILURES == 5

\* user ids a caller may pass: a valid id, a non-positive id, a non-integer
UserIdValues == { IntV(1), IntV(-3), StrV(<< "x" >>) }

\* the list of end-to-end scenario 3
Scenario3 == << IntV(1), IntV(2), IntV(-3), IntV(4), StrV(<< "x" >>) >>

UserIdLists == SeqsUpTo(UserIdValues, MaxTargets) \cup { Scenario3 }

\* a list argument, or something that is not a list
NotAList == [list |-> FALSE, items |-> << >>]
AList(items) == [list |-> TRUE, items |-> items]

IdArgValues == { IntV(1), IntV(0) }

EmptyReport(total) ==
    [total |-> total, succeeded |-> 0, failed |-> 0, entries |-> << >>,
     aborted |-> FALSE]

FailedEntry(id, err) == [id |-> id, status |-> "failed", error |-> err]

\* if not isinstance(x, list): raise ...; if not x: raise ...
ListError(name, x) ==
    IF ~x.list THEN ValueError(name, -1, "must be a list", x)
    ELSE IF x.items = << >> THEN ValueError(name, -1, "cannot be empty", x)
    ELSE NoError

\* Upfront checks shared by bulk_enroll_users / bulk_add_to_group, then the
\* initialisation of results and consecutive_failures.
BulkCall(name, idname, id, user_ids) ==
    /\ op' = name
    /\ arg_id' = id
    /\ targets' = user_ids.items
    /\ i' = 0
    /\ consecutive_failures' = 0
    /\ executed' = 0
    /\ processed' = << >>
    /\ outcomes' = << >>
    /\ call' = ("name" :> name) @@ (idname :> id) @@ ("user_ids" :> user_ids)
    /\ cmds' = << >>
    /\ UNCHANGED << textvars, sessvars >>
    /\ LET v == _validate_positive_int(id, idname, -1)
           e == IF ~v.ok THEN v.err ELSE ListError("user_ids", user_ids)
       IN  /\ error' = e
           /\ IF e # NoError
              THEN /\ pc' = "raised"
                   /\ exc' = "ValueError"
                   /\ results' = EmptyReport(0)
              ELSE /\ pc' = "loop"
                   /\ exc' = ""
                   /\ results' = EmptyReport(Len(user_ids.items))

bulk_enroll_users_call ==
    /\ pc = "idle"
    /\ \E id \in IdArgValues, l \in { AList(x) : x \in UserIdLists } \cup { NotAList } :
        BulkCall("bulk_enroll_users", "course_id", id, l)

bulk_add_to_group_call ==
    /\ pc = "idle"
    /\ \E id \in IdArgValues, l \in { AList(x) : x \in UserIdLists } \cup { NotAList } :
        BulkCall("bulk_add_to_group", "group_id", id, l)

\* Variant of the loop body in which a validation failure leaves the counter
\* as it is.
BulkIter_validation_uncounted(res) ==
    LET user_id == targets[i + 1]
        v == _validate_positive_int(user_id, "user_ids", i)
        failure == ~v.ok \/ res.raised
        err == IF ~v.ok THEN v.err ELSE res.err
        cf == IF ~v.ok THEN consecutive_failures
              ELSE IF failure THEN consecutive_failures + 1 ELSE 0
        trip == cf >= MAX_CONSECUTIVE_FAILURES
    IN  /\ consecutive_failures' = cf
        /\ executed' = executed + (IF v.ok THEN res.ncmds ELSE 0)
        /\ processed' = Append(processed, i)
        /\ outcomes' = Append(outcomes, IF failure THEN "F" ELSE "S")
        /\ results' =
             [results EXCEPT
                !.succeeded = IF failure THEN @ ELSE @ + 1,
                !.failed = IF failure THEN @ + 1 ELSE @,
                !.entries = IF failure THEN Append(@, FailedEntry(user_id, err)) ELSE @,
                !.aborted = trip]
        /\ i' = i + 1
        /\ pc' = IF trip \/ i + 1 = Len(targets) THEN "done" ELSE "loop"
        /\ UNCHANGED << op, exc, arg_id, targets, opvars, textvars, sessvars >>

\* Variant of the loop body that stays on a target that failed.
BulkIter_retries(res) ==
    LET user_id == targets[i + 1]
        v == _validate_positive_int(user_id, "user_ids", i)
        failure == ~v.ok \/ res.raised
        err == IF ~v.ok THEN v.err ELSE res.err
        cf == IF failure THEN consecutive_failures + 1 ELSE 0
        trip == cf >= MAX_CONSECUTIVE_FAILURES
    IN  /\ consecutive_failures' = cf
        /\ executed' = executed + (IF v.ok THEN res.ncmds ELSE 0)
        /\ processed' = Append(processed, i)
        /\ outcomes' = Append(outcomes, IF failure THEN "F" ELSE "S")
        /\ results' =
             [results EXCEPT
                !.succeeded = IF failure THEN @ ELSE @ + 1,
                !.failed = IF failure THEN @ + 1 ELSE @,
                !.entries = IF failure THEN Append(@, FailedEntry(user_id, err)) ELSE @,
                !.aborted = trip]
        /\ i' = IF failure /\ ~trip THEN i ELSE i + 1
        /\ pc' = IF trip \/ (~failure /\ i + 1 = Len(targets)) THEN "done" ELSE "loop"
        /\ UNCHANGED << op, exc, arg_id, targets, opvars, textvars, sessvars >>

\* Variant of the loop body that does not abort on the last target.
BulkIter_last_not_aborted(res) ==
    LET user_id == targets[i + 1]
        v == _validate_positive_int(user_id, "user_ids", i)
        failure == ~v.ok \/ res.raised
        err == IF ~v.ok THEN v.err ELSE res.err
        cf == IF failure THEN consecutive_failures + 1 ELSE 0
        trip == cf >= MAX_CONSECUTIVE_FAILURES /\ i + 1 < Len(targets)
    IN  /\ consecutive_failures' = cf
        /\ executed' = executed + (IF v.ok THEN res.ncmds ELSE 0)
        /\ processed' = Append(processed, i)
        /\ outcomes' = Append(outcomes, IF failure THEN "F" ELSE "S")
        /\ results' =
             [results EXCEPT
                !.succeeded = IF failure THEN @ ELSE @ + 1,
                !.failed = IF failure THEN @ + 1 ELSE @,
                !.entries = IF failure THEN Append(@, FailedEntry(user_id, err)) ELSE @,
                !.aborted = trip]
        /\ i' = i + 1
        /\ pc' = IF trip \/ i + 1 = Len(targets) THEN "done" ELSE "loop"
        /\ UNCHANGED << op, exc, arg_id, targets, opvars, textvars, sessvars >>

\* One iteration of the for loop of bulk_enroll_users / bulk_add_to_group:
\* validate the id, delegate, count, then the circuit breaker check.  On
\* abort the loop is left by break; nothing is recorded for the rest.
BulkIter(res) ==
    LET user_id == targets[i + 1]
        v == _validate_positive_int(user_id, "user_ids", i)
        failure == ~v.ok \/ res.raised
        err == IF ~v.ok THEN v.err ELSE res.err
        cf == IF failure THEN consecutive_failures + 1 ELSE 0
        trip == cf >= MAX_CONSECUTIVE_FAILURES
    IN  /\ consecutive_failures' = cf
        /\ executed' = executed + (IF v.ok THEN res.ncmds ELSE 0)
        /\ processed' = Append(processed, i)
        /\ outcomes' = Append(outcomes, IF failure THEN "F" ELSE "S")
        /\ results' =
             [results EXCEPT
                !.succeeded = IF failure THEN @ ELSE @ + 1,
                !.failed = IF failure THEN @ + 1 ELSE @,
                !.entries = IF failure THEN Append(@, FailedEntry(user_id, err)) ELSE @,
                !.aborted = trip]
        /\ i' = i + 1
        /\ pc' = IF trip \/ i + 1 = Len(targets) THEN "done" ELSE "loop"
        /\ UNCHANGED << op, exc, arg_id, targets, opvars, textvars, sessvars >>

bulk_enroll_users_iter ==
    /\ pc = "loop" /\ op = "bulk_enroll_users"
    /\ \E remote \in RemoteOutcomes2 :
          BulkIter(enroll_user(targets[i + 1], arg_id, remote))

bulk_add_to_group_iter ==
    /\ pc = "loop" /\ op = "bulk_add_to_group"
    /\ \E remote \in RemoteOutcomes2 :
          BulkIter(add_user_to_group(targets[i + 1], arg_id, remote))

-----------------------------------------------------------------------------
(* Bulk runner: batch_update_lesson_content *)

Dict(keys, lesson_id, title, order) ==
    [t |-> "dict", keys |-> keys, lesson_id |-> lesson_id, title |-> title,
     content |-> NoneV, order |-> order]

\* dict.get(key, default)
DictGet(d, key, default) == IF key \in d.keys THEN d[key] ELSE default

\* elements a caller may put in updates: something that is not a dict, a dict
\* without lesson_id, a dict with an invalid lesson_id, a well-formed update
UpdateValues ==
    { StrV(<< "x" >>),
      Dict({}, NoneV, NoneV, NoneV),
      Dict({"lesson_id", "title"}, IntV(-3), StrV(<< "T" >>), NoneV),
      Dict({"lesson_id", "title", "order"}, IntV(1), StrV(<< "T" >>), IntV(2)) }

UpdateLists == SeqsUpTo(UpdateValues, MaxTargets)

Unknown == StrV(<< "unknown" >>)

AbortedError == [exc |-> "", param |-> "", idx |-> -1,
                 msg |-> "Batch operation aborted due to consecutive failures",
                 got |-> NoneV]

\* upfront checks, then the initialisation of results
batch_update_lesson_content_call ==
    /\ pc = "idle"
    /\ \E updates \in { AList(x) : x \in UpdateLists } \cup { NotAList } :
        /\ op' = "batch_update_lesson_content"
        /\ arg_id' = NoneV
        /\ targets' = updates.items
        /\ i' = 0
        /\ consecutive_failures' = 0
        /\ executed' = 0
        /\ processed' = << >>
        /\ outcomes' = << >>
        /\ call' = [name |-> "batch_update_lesson_content", updates |-> updates]
        /\ error' = ListError("updates", updates)
        /\ cmds' = << >>
        /\ UNCHANGED << textvars, sessvars >>
        /\ IF ListError("updates", updates) # NoError
           THEN /\ pc' = "raised"
                /\ exc' = "ValueError"
                /\ results' = EmptyReport(0)
           ELSE /\ pc' = "loop"
                /\ exc' = ""
                /\ results' = EmptyReport(Len(updates.items))

\* the body of the try block for one element: the outcome of the checks and
\* of the delegated update_lesson
BatchTry(update_dict, remote) ==
    IF update_dict.t # "dict"
    THEN [raised |-> TRUE, err |-> ValueError("updates", i, "must be a dict", NoneV),
          ncmds |-> 0]
    ELSE IF ~Truthy(DictGet(update_dict, "lesson_id", NoneV))
    THEN [raised |-> TRUE, err |-> ValueError("updates", i, "missing lesson_id", NoneV),
          ncmds |-> 0]
    ELSE update_lesson(DictGet(update_dict, "lesson_id", NoneV),
                       DictGet(update_dict, "title", NoneV),
                       DictGet(update_dict, "content", NoneV),
                       DictGet(update_dict, "order", NoneV), remote)

\* the "not attempted" entries appended on abort for updates[i+1:], up to
\* the first element that has no .get (appending it raises AttributeError)
RECURSIVE NotAttempted(_)
NotAttempted(rest) ==
    IF rest = << >> \/ Head(rest).t # "dict" THEN << >>
    ELSE << [id |-> DictGet(Head(rest), "lesson_id", NoneV),
             status |-> "not_attempted", error |-> AbortedError] >>
         \o NotAttempted(Tail(rest))

\* One iteration of the for loop: try block, except handler, circuit breaker.
batch_update_lesson_content_iter ==
    /\ pc = "loop" /\ op = "batch_update_lesson_content"
    /\ \E remote \in RemoteOutcomes2 :
        LET update_dict == targets[i + 1]
            res == BatchTry(update_dict, remote)
            cf == IF res.raised THEN consecutive_failures + 1 ELSE 0
            trip == cf >= MAX_CONSECUTIVE_FAILURES
            rest == SubSeq(targets, i + 2, Len(targets))
            skipped == NotAttempted(rest)
        IN  /\ executed' = executed + res.ncmds
            /\ processed' = Append(processed, i)
            /\ outcomes' = Append(outcomes, IF res.raised THEN "F" ELSE "S")
            /\ i' = i + 1
            /\ UNCHANGED << op, arg_id, targets, opvars, textvars, sessvars >>
            /\ IF ~res.raised
               THEN \* success: count, append the detail, reset the counter
                    /\ results' = [results EXCEPT
                          !.succeeded = @ + 1,
                          !.entries = Append(@,
                              [id |-> DictGet(update_dict, "lesson_id", NoneV),
                               status |-> "success", error |-> NoError])]
                    /\ consecutive_failures' = 0
                    /\ pc' = IF i + 1 = Len(targets) THEN "done" ELSE "loop"
                    /\ exc' = ""
               ELSE IF update_dict.t # "dict"
               THEN \* the handler counts the failure, then update_dict.get raises
                    /\ results' = [results EXCEPT !.failed = @ + 1]
                    /\ consecutive_failures' = consecutive_failures
                    /\ pc' = "raised"
                    /\ exc' = "AttributeError"
               ELSE /\ consecutive_failures' = cf
                    /\ results' = [results EXCEPT
                          !.failed = @ + 1,
                          !.entries = Append(@,
                              FailedEntry(DictGet(update_dict, "lesson_id", Unknown),
                                          res.err)) \o (IF trip THEN skipped ELSE << >>),
                          !.aborted = trip]
                    /\ IF trip /\ Len(skipped) < Len(rest)
                       THEN pc' = "raised" /\ exc' = "AttributeError"
                       ELSE /\ pc' = IF trip \/ i + 1 = Len(targets)
                                     THEN "done" ELSE "loop"
                            /\ exc' = ""

-----------------------------------------------------------------------------
(* Configuration (config.py) and the state of the one WPCLIClient the      *)
(* server keeps (server.py, wp_cli.py)                                     *)

\* files that exist on the machine the server runs on
KeyFiles == { << "id_rsa" >> }

Unset == NoneV
Empty == StrV(<< >>)

\* os.getenv(name, "") of the five required settings: "" when unset
RequiredSettings == { Empty, StrV(<< "x" >>) }
KeyPathSettings == { Unset, StrV(<< "id_rsa" >>), StrV(<< "gone" >>) }
PasswordSettings == { Unset, StrV(<< "pw" >>) }

Envs == [WP_SITE_URL : RequiredSettings, WP_SSH_HOST : RequiredSettings,
         WP_SSH_USER : RequiredSettings, WP_API_USER : RequiredSettings,
         WP_API_PASSWORD : RequiredSettings,
         WP_SSH_KEY_PATH : KeyPathSettings, WP_SSH_PASSWORD : PasswordSettings]

\* an environment with every setting present
DefaultEnv == [WP_SITE_URL |-> StrV(<< "x" >>), WP_SSH_HOST |-> StrV(<< "x" >>),
               WP_SSH_USER |-> StrV(<< "x" >>), WP_API_USER |-> StrV(<< "x" >>),
               WP_API_PASSWORD |-> StrV(<< "x" >>),
               WP_SSH_KEY_PATH |-> StrV(<< "id_rsa" >>), WP_SSH_PASSWORD |-> Unset]

\* WordPressConfig.from_env
from_env(e) ==
    [site_url |-> e.WP_SITE_URL, ssh_host |-> e.WP_SSH_HOST, ssh_user |-> e.WP_SSH_USER,
     ssh_key_path |-> e.WP_SSH_KEY_PATH, api_user |-> e.WP_API_USER,
     api_password |-> e.WP_API_PASSWORD, ssh_port |-> IntV(22),
     ssh_password |-> e.WP_SSH_PASSWORD]

\* WordPressConfig.validate: the list of error messages
validate(cfg) ==
    (IF ~Truthy(cfg.site_url) THEN << "WP_SITE_URL is required" >> ELSE << >>)
    \o (IF ~Truthy(cfg.ssh_host) THEN << "WP_SSH_HOST is required" >> ELSE << >>)
    \o (IF ~Truthy(cfg.ssh_user) THEN << "WP_SSH_USER is required" >> ELSE << >>)
    \o (IF ~Truthy(cfg.api_user) THEN << "WP_API_USER is required" >> ELSE << >>)
    \o (IF ~Truthy(cfg.api_password) THEN << "WP_API_PASSWORD is required" >> ELSE << >>)
    \o (IF Truthy(cfg.ssh_key_path) /\ cfg.ssh_key_path.s \notin KeyFiles
        THEN << "SSH key not found" >> ELSE << >>)

\* no blocking network call is in flight
NoNetwork == [call |-> "", command |-> << >>, timeout |-> NoneV, pending |-> FALSE,
              status |-> "", exit_code |-> 0, stdout |-> << >>, stderr |-> << >>]

\* the state before the server handled its first tool call, in environment e
\* no prerequisite is stored for the lesson
NoPostMeta == [lesson_prerequisite |-> NoneV, lesson_prerequisites |-> NoneV]

\* no tool call has been requested
MaxCalls == 2
NoTasks == [t \in 1..MaxCalls |-> [pc |-> "none", left |-> 0, saw_none |-> FALSE]]

FreshProcess(e) ==
    /\ env = e
    /\ config = NoneV
    /\ wp_cli = NoneV
    /\ ssh_client = 0
    /\ clients = << >>
    /\ handshakes = 0
    /\ network = NoNetwork
    /\ returned = NoneV
    /\ post_meta = NoPostMeta
    /\ tasks = NoTasks
    /\ loop = 0

NoSession == FreshProcess(DefaultEnv)

-----------------------------------------------------------------------------

Init ==
    /\ op = ""
    /\ pc = "idle"
    /\ exc = ""
    /\ arg_id = NoneV
    /\ targets = << >>
    /\ i = 0
    /\ consecutive_failures = 0
    /\ results = EmptyReport(0)
    /\ executed = 0
    /\ processed = << >>
    /\ outcomes = << >>
    /\ call = NoCall
    /\ error = NoError
    /\ cmds = << >>
    /\ text = << >>
    /\ tokens = << >>
    /\ NoSession

Next ==
    \/ bulk_enroll_users_call
    \/ bulk_enroll_users_iter
    \/ bulk_add_to_group_call
    \/ bulk_add_to_group_iter
    \/ batch_update_lesson_content_call
    \/ batch_update_lesson_content_iter

Spec == Init /\ [][Next]_vars

-----------------------------------------------------------------------------
(* Properties of the bulk runners *)

BulkOps == { "bulk_enroll_users", "bulk_add_to_group", "batch_update_lesson_content" }

\* the call is over: it returned its report or an exception escaped
RunEnded == pc \in { "done", "raised" }

\* the upfront checks passed and the loop body ran at least once
LoopStarted == processed # << >>

\* some k consecutive entries of pattern are failures
HasFailureRun(pattern, k) ==
    \E j \in 1..(Len(pattern) - k + 1) : \A m \in j..(j + k - 1) : pattern[m] = "F"

AllFailed(n) == [m \in 1..n |-> "F"]

NotAttemptedEntries ==
    SelectSeq(results.entries, LAMBDA e : e.status = "not_attempted")

\* C1: in a bulk run over N >= 5 targets where every per-target attempt
\* fails, exactly 5 targets are attempted: while fewer than 5 have failed the
\* run goes on, and it ends after the 5th with a report that has failed = 5,
\* succeeded = 0 and aborted = true.
Claim1_AbortsAfterExactlyFive ==
    (op \in BulkOps /\ LoopStarted /\ Len(targets) >= 5
       /\ \A k \in 1..Len(outcomes) : outcomes[k] = "F")
    => \/ pc = "loop" /\ Len(processed) < 5
       \/ /\ pc = "done"
          /\ Len(processed) = 5
          /\ results.failed = 5
          /\ results.succeeded = 0
          /\ results.aborted

\* C1 holds of the two runners over user ids (supporting statement)
Claim1_UserIdRunners ==
    op \in { "bulk_enroll_users", "bulk_add_to_group" } => Claim1_AbortsAfterExactlyFive

\* C2: when the pattern of per-target successes and failures contains no run
\* of 5 consecutive failures (here: not even if every target not yet
\* processed failed), the run attempts all N targets and returns with
\* aborted = false.
Claim2_NoRunOfFiveProcessesAll ==
    (op \in BulkOps /\ LoopStarted /\ RunEnded
       /\ ~HasFailureRun(outcomes \o AllFailed(Len(targets) - Len(processed)), 5))
    => /\ pc = "done"
       /\ Len(processed) = Len(targets)
       /\ ~results.aborted

\* C2 holds of the two runners over user ids (supporting statement)
Claim2_UserIdRunners ==
    op \in { "bulk_enroll_users", "bulk_add_to_group" } => Claim2_NoRunOfFiveProcessesAll

\* C3: once the upfront argument checks have passed, no per-target failure
\* escapes the runner as an exception: an exception leaves a bulk runner only
\* before the first target is processed.
Claim3_NoExceptionAfterUpfrontChecks ==
    (op \in BulkOps /\ pc = "raised") => ~LoopStarted

\* C4: whenever a bulk run sets aborted = true, it returns its report and
\* every target after the abort point is recorded in it as not-attempted.
Claim4_RemainingRecordedNotAttempted ==
    (op \in BulkOps /\ results.aborted)
    => /\ pc = "done"
       /\ Len(NotAttemptedEntries) = Len(targets) - Len(processed)

\* C5: every report returned by a bulk run satisfies
\* succeeded + failed + not_attempted = total, and the details of
\* batch_update_lesson_content hold one entry per input update.
Claim5_CountsAddUp ==
    (op \in BulkOps /\ pc = "done")
    => /\ results.succeeded + results.failed + Len(NotAttemptedEntries) = results.total
       /\ op = "batch_update_lesson_content" => Len(results.entries) = results.total

\* the run processed the list of scenario 3 against a remote end whose
\* commands all succeeded (every recorded failure is a validation failure)
Scenario3Done ==
    /\ op = "bulk_enroll_users"
    /\ pc = "done"
    /\ arg_id = IntV(1)
    /\ targets = Scenario3
    /\ \A k \in 1..Len(results.entries) : results.entries[k].error.exc = "ValueError"

\* C6 as stated: bulk_enroll_users on [1, 2, -3, 4, "x"] with a remote call
\* that always succeeds returns failed = 2, succeeded = 2, aborted = false.
Claim6_Original ==
    Scenario3Done
    => results.failed = 2 /\ results.succeeded = 2 /\ ~results.aborted

\* C6 amended: bulk_enroll_users on [1, 2, -3, 4, "x"] with a remote call that
\* always succeeds returns failed = 2 (the entries for -3 and "x", in that
\* order), succeeded = 3 (the ids 1, 2 and 4) and aborted = false.
Claim6_Scenario3 ==
    Scenario3Done
    => /\ results.failed = 2
       /\ results.succeeded = 3
       /\ ~results.aborted
       /\ Len(results.entries) = 2
       /\ results.entries[1].id = IntV(-3)
       /\ results.entries[2].id = StrV(<< "x" >>)
       /\ executed = 6

Claim6_Witness == Scenario3Done

-----------------------------------------------------------------------------
(* Text.  A string is a sequence of atoms; an atom is one character, or a
   word of safe characters ("rm", "-rf", "Test") kept whole for brevity. *)

MaxStrLen == 3

\* The backquote character (chr(96)), which a TLA+ string cannot hold.
Backquote == "<backquote>"

\* The characters shlex.quote does not leave bare: everything outside
\* [A-Za-z0-9_@%+=:,./-].  Every other atom of the model is safe.
UnsafeChars ==
    { "'", "\"", " ", "\n", "\t", ";", "$", Backquote, "(", ")", "\\", "&", "|",
      "<", ">", "*", "?", "[", "]", "{", "}", "!", "#", "~" }

Chars == { "a", "'", "\"", " ", "\n", ";", "$", Backquote, "(", ")", "\\" }

RECURSIVE Concat(_)
Concat(seqs) ==
    IF seqs = << >> THEN << >> ELSE Head(seqs) \o Concat(Tail(seqs))

\* shlex.quote's replace: each single quote becomes quote, dquote, quote, dquote, quote
RECURSIVE ReplaceQuotes(_)
ReplaceQuotes(s) ==
    IF s = << >> THEN << >>
    ELSE (IF Head(s) = "'" THEN << "'", "\"", "'", "\"", "'" >> ELSE << Head(s) >>)
         \o ReplaceQuotes(Tail(s))

\* Variants of shlex.quote that get it wrong.
quote_no_escape(s) ==
    IF s = << >> THEN << "'", "'" >>
    ELSE IF \A k \in 1..Len(s) : s[k] \notin UnsafeChars THEN s
    ELSE << "'" >> \o s \o << "'" >>

quote_twice(s) ==
    LET once == << "'" >> \o ReplaceQuotes(s) \o << "'" >>
    IN << "'" >> \o ReplaceQuotes(once) \o << "'" >>

\* shlex.quote(s)
quote(s) ==
    IF s = << >> THEN << "'", "'" >>
    ELSE IF \A k \in 1..Len(s) : s[k] \notin UnsafeChars THEN s
    ELSE << "'" >> \o ReplaceQuotes(s) \o << "'" >>

(* How the remote POSIX shell reads a command line: token recognition with
   quote removal.  A token is a word (after quote removal), an operator that
   ends the current command or redirects it, an expansion ($.. or a backquote that
   the shell would evaluate), or the mark of an unterminated quote. *)
Word(w) == [kind |-> "word", text |-> w]
Operator(c) == [kind |-> "operator", text |-> << c >>]
Expansion(c) == [kind |-> "expansion", text |-> << c >>]
Unterminated == [kind |-> "unterminated", text |-> << >>]

Blanks == { " ", "\t" }
OperatorChars == { ";", "&", "|", "(", ")", "<", ">", "\n" }
ExpansionChars == { "$", Backquote }
DqEscapable == { "$", Backquote, "\"", "\\", "\n" }

Flush(out, cur, open) == IF open THEN Append(out, Word(cur)) ELSE out

RECURSIVE Lex(_, _, _, _, _, _)
Lex(line, k, mode, cur, open, out) ==
    IF k > Len(line)
    THEN IF mode = "plain" THEN Flush(out, cur, open)
         ELSE Append(Flush(out, cur, open), Unterminated)
    ELSE LET c == line[k] IN
      CASE mode = "sq" ->
             IF c = "'" THEN Lex(line, k + 1, "plain", cur, TRUE, out)
             ELSE Lex(line, k + 1, "sq", Append(cur, c), TRUE, out)
        [] mode = "dq" ->
             IF c = "\"" THEN Lex(line, k + 1, "plain", cur, TRUE, out)
             ELSE IF c = "\\" /\ k < Len(line) /\ line[k + 1] \in DqEscapable
             THEN Lex(line, k + 2, "dq",
                      IF line[k + 1] = "\n" THEN cur ELSE Append(cur, line[k + 1]),
                      TRUE, out)
             ELSE IF c \in ExpansionChars
             THEN Lex(line, k + 1, "dq", cur, TRUE, Append(out, Expansion(c)))
             ELSE Lex(line, k + 1, "dq", Append(cur, c), TRUE, out)
        [] OTHER ->
             IF c \in Blanks
             THEN Lex(line, k + 1, "plain", << >>, FALSE, Flush(out, cur, open))
             ELSE IF c \in OperatorChars
             THEN Lex(line, k + 1, "plain", << >>, FALSE,
                      Append(Flush(out, cur, open), Operator(c)))
             ELSE IF c = "'" THEN Lex(line, k + 1, "sq", cur, TRUE, out)
             ELSE IF c = "\"" THEN Lex(line, k + 1, "dq", cur, TRUE, out)
             ELSE IF c = "\\"
             THEN IF k = Len(line)
                  THEN Lex(line, k + 1, "plain", Append(cur, c), TRUE, out)
                  ELSE IF line[k + 1] = "\n"
                  THEN Lex(line, k + 2, "plain", cur, open, out)
                  ELSE Lex(line, k + 2, "plain", Append(cur, line[k + 1]), TRUE, out)
             ELSE IF c \in ExpansionChars
             THEN Lex(line, k + 1, "plain", cur, TRUE, Append(out, Expansion(c)))
             ELSE Lex(line, k + 1, "plain", Append(cur, c), TRUE, out)

ShellTokens(line) == Lex(line, 1, "plain", << >>, FALSE, << >>)

\* title = 'Test"; rm -rf /; echo "'
MaliciousTitle ==
    << "Test", "\"", ";", " ", "rm", " ", "-rf", " ", "/", ";", " ", "echo", " ", "\"" >>

QuoteInputs == SeqsUpTo(Chars, MaxStrLen) \cup { MaliciousTitle }

\* Variant of create_course's command with the title put in as it is.
create_course_cmd_unquoted(title) ==
    << "post", " ", "create", " ", "--post_type=sfwd-courses", " ", "--post_title=" >>
    \o title \o << " ", "--post_status=draft" >>

\* f"post create --post_type=sfwd-courses --post_title={shlex.quote(title)} ..."
create_course_cmd(title) ==
    << "post", " ", "create", " ", "--post_type=sfwd-courses", " ", "--post_title=" >>
    \o quote(title) \o << " ", "--post_status=draft" >>

\* full_command = f"cd {remote_path} && wp {command} --format={format}"
full_command(command, format) ==
    << "cd", " ", "/var/www", " ", "&", "&", " ", "wp", " " >> \o command
    \o (IF format \notin { "none", "table" } THEN << " ", "--format=" \o format >> ELSE << >>)

InitQuote ==
    /\ op = ""
    /\ pc = "idle"
    /\ exc = ""
    /\ arg_id = NoneV
    /\ targets = << >>
    /\ i = 0
    /\ consecutive_failures = 0
    /\ results = EmptyReport(0)
    /\ executed = 0
    /\ processed = << >>
    /\ outcomes = << >>
    /\ call \in { [name |-> "quote", s |-> str] : str \in QuoteInputs }
    /\ error = NoError
    /\ cmds = << >>
    /\ text = << >>
    /\ tokens = << >>
    /\ NoSession

\* shlex.quote(title) on its own
shlex_quote ==
    /\ pc = "idle"
    /\ call.name = "quote"
    /\ op' = "quote"
    /\ pc' = "quoted"
    /\ text' = quote(call.s)
    /\ UNCHANGED << exc, arg_id, targets, executed, bulkvars, call, error, cmds, tokens, sessvars >>

\* shlex.quote(title) inside the command create_course sends
create_course_quote ==
    /\ pc = "idle"
    /\ call.name = "quote"
    /\ op' = "create_course"
    /\ pc' = "quoted"
    /\ text' = full_command(create_course_cmd(call.s), "json")
    /\ UNCHANGED << exc, arg_id, targets, executed, bulkvars, call, error, cmds, tokens, sessvars >>

\* the remote shell reads what it was sent
shell_read ==
    /\ pc = "quoted"
    /\ pc' = "read"
    /\ tokens' = ShellTokens(text)
    /\ UNCHANGED << op, exc, arg_id, targets, executed, bulkvars, opvars, text, sessvars >>

NextQuote == shlex_quote \/ create_course_quote \/ shell_read

SpecQuote == InitQuote /\ [][NextQuote]_vars

\* What the shell reads from create_course's command when the title is one
\* argument: the words of the command with --post_title=<title> as one word.
CreateCourseWords(title) ==
    << Word(<< "cd" >>), Word(<< "/var/www" >>), Operator("&"), Operator("&"),
       Word(<< "wp" >>), Word(<< "post" >>), Word(<< "create" >>),
       Word(<< "--post_type=sfwd-courses" >>),
       Word(<< "--post_title=" >> \o title),
       Word(<< "--post_status=draft" >>), Word(<< "--format=json" >>) >>

\* C8: unquote(quote(s)) = s for every string over the alphabet: the shell
\* reads the quoted string back as exactly one word whose text is s, both on
\* its own and inside create_course's command, where no character of the
\* title starts a command of its own.
Claim8_QuoteRoundTrip ==
    pc = "read" =>
        IF op = "quote" THEN tokens = << Word(call.s) >>
        ELSE tokens = CreateCourseWords(call.s)

\* C8 witness: a title with quotes, separators and "rm -rf /" went through
\* create_course's command and was read back, and a string with a single
\* quote and a substitution character was quoted and read back.
Claim8_Witness ==
    /\ pc = "read"
    /\ \/ op = "create_course" /\ call.s = MaliciousTitle
       \/ op = "quote" /\ call.s = << "'", "$", "\n" >>

-----------------------------------------------------------------------------
(* Command construction.  A command is the sequence of the parts its text  *)
(* is put together from; a part remembers where its value came from and    *)
(* what was done to it on the way into the text.                           *)

FloatV(k) == [t |-> "float", n |-> k, s |-> << >>]
BoolV(b) == [t |-> "bool", n |-> IF b THEN 1 ELSE 0, s |-> << >>]

Digit(d) == << "0", "1", "2", "3", "4", "5", "6", "7", "8", "9" >>[d + 1]

RECURSIVE Digits(_)
Digits(n) == IF n < 10 THEN << Digit(n) >> ELSE Append(Digits(n \div 10), Digit(n % 10))

\* str(value)
Str(value) ==
    CASE value.t = "int" ->
           IF value.n < 0 THEN << "-" >> \o Digits(-value.n) ELSE Digits(value.n)
      [] value.t = "float" ->
           (IF value.n < 0 THEN << "-" >> \o Digits(-value.n) ELSE Digits(value.n))
           \o << ".", "0" >>
      [] value.t = "bool" -> IF value.n = 1 THEN << "True" >> ELSE << "False" >>
      [] value.t = "none" -> << "None" >>
      [] OTHER -> value.s

\* value not in allowed_values
_validate_literal(value, name, allowed_values) ==
    IF value.t # "str" \/ value.s \notin allowed_values
    THEN [ok |-> FALSE, val |-> value, by |-> "",
          err |-> ValueError(name, -1, "must be one of", value)]
    ELSE [ok |-> TRUE, val |-> value, by |-> "_validate_literal", err |-> NoError]

\* isinstance(value, (int, float)), then float(value) >= min_value
_validate_float(value, name, min_value) ==
    IF ~(IsInstanceInt(value) \/ value.t = "float")
    THEN [ok |-> FALSE, val |-> value, by |-> "",
          err |-> ValueError(name, -1, "must be a number", value)]
    ELSE IF value.n < min_value
    THEN [ok |-> FALSE, val |-> value, by |-> "",
          err |-> ValueError(name, -1, "must be >=", FloatV(value.n))]
    ELSE [ok |-> TRUE, val |-> FloatV(value.n), by |-> "_validate_float", err |-> NoError]

\* isinstance(value, int), then min_value <= value <= max_value
_validate_int_range(value, name, min_value, max_value) ==
    IF ~IsInstanceInt(value)
    THEN [ok |-> FALSE, val |-> value, by |-> "",
          err |-> ValueError(name, -1, "must be an integer", value)]
    ELSE IF value.n < min_value \/ value.n > max_value
    THEN [ok |-> FALSE, val |-> value, by |-> "",
          err |-> ValueError(name, -1, "must be between", value)]
    ELSE [ok |-> TRUE, val |-> value, by |-> "_validate_int_range", err |-> NoError]

\* the messages of the _validate_* helpers
ValidatorMessages ==
    { "must be a positive integer", "must be a string", "cannot be empty",
      "too long", "must be one of", "must be a number", "must be >=",
      "must be an integer", "must be between" }

\* the first violation, in the order the checks are written
RECURSIVE FirstError(_)
FirstError(checks) ==
    IF checks = << >> THEN NoError
    ELSE IF ~Head(checks).ok THEN Head(checks).err
    ELSE FirstError(Tail(checks))

\* A part of a command text.  src: "static" (written in the code), "caller"
\* (an argument of the call), "remote" (read from the remote end).  kind: the
\* declared kind of the value.  own: shlex.quote was applied to this value.
\* by: the validator the value passed in this call, "" if none.
Lit(atoms) ==
    [src |-> "static", name |-> "", kind |-> "static", raw |-> atoms,
     own |-> FALSE, by |-> "", text |-> atoms]

\* {shlex.quote(x)}
Quoted(src, name, kind, raw, by) ==
    [src |-> src, name |-> name, kind |-> kind, raw |-> raw,
     own |-> TRUE, by |-> by, text |-> quote(raw)]

\* {x}
Bare(src, name, kind, raw, by) ==
    [src |-> src, name |-> name, kind |-> kind, raw |-> raw,
     own |-> FALSE, by |-> by, text |-> raw]

\* cli.execute(cmd, format): a wp-cli command line, or "eval" of PHP code
\* that is quoted as a whole
Cmd(parts, format) == [parts |-> parts, php |-> FALSE, format |-> format]
Eval(parts) == [parts |-> parts, php |-> TRUE, format |-> "none"]

PartsText(parts) == Concat([k \in 1..Len(parts) |-> parts[k].text])

CommandText(c) ==
    IF c.php THEN << "eval", " " >> \o quote(PartsText(c.parts))
    ELSE PartsText(c.parts)

\* WPCLIClient.execute: the line sent to the remote shell
FullCommand(c) == full_command(CommandText(c), c.format)

\* The remote end during one call: the command that fails (0: none), what a
\* creating command prints ("id": a post id, "garbage": not a number), what
\* "post get" returns for a lesson ("missing": nothing, "no_course": a post
\* without course_id, "ok", "long_title": a post with a 200 character title,
\* "bad_course": a post whose course_id is -1), and the number of topics
\* "post list" returns for a lesson.
MaxFail == 3
MaxTopics == 1
Originals == { "missing", "no_course", "ok", "long_title", "bad_course" }
Remotes == [failAt : 0..MaxFail, created : { "id", "garbage" },
            original : { "ok" }, topics : { 0 }]
LessonRemotes == [failAt : 0..MaxFail, created : { "id", "garbage" },
                  original : Originals, topics : 0..MaxTopics]

\* the id the remote end gives a created post
NewId == IntV(123)

Ok(cmdseq) == [raised |-> FALSE, err |-> NoError, cmds |-> cmdseq]
Raise(e, cmdseq) == [raised |-> TRUE, err |-> e, cmds |-> cmdseq]

\* int(result) on output that is not a number
ConversionError == ValueError("", -1, "invalid literal for int()", StrV(<< "garbage" >>))

\* the commands of plan are executed in order until one fails
Execute(plan, remote) ==
    IF remote.failAt \in 1..Len(plan)
    THEN Raise(WPCLIError, SubSeq(plan, 1, remote.failAt))
    ELSE Ok(plan)

\* one result after the other: the second call is not made if the first raised
Then(r1, r2) ==
    IF r1.raised THEN r1
    ELSE [raised |-> r2.raised, err |-> r2.err, cmds |-> r1.cmds \o r2.cmds]

\* the remote end as seen after k commands have gone through
After(remote, k) == [remote EXCEPT !.failAt = IF @ > k THEN @ - k ELSE 0]

\* the same, where the output of the first command is converted with int()
ExecuteCreate(plan, remote) ==
    IF remote.failAt # 1 /\ remote.created = "garbage"
    THEN Raise(ConversionError, SubSeq(plan, 1, 1))
    ELSE Execute(plan, remote)

-----------------------------------------------------------------------------
(* Single-entity operations of LearnDashManager, with the commands they    *)
(* pass to cli.execute.                                                    *)

\* f'post meta update {quote(id)} {quote(key)} {quote(value)}'
PostMetaUpdate(idp, key, valp) ==
    Cmd(<< Lit(<< "post", " ", "meta", " ", "update", " " >>), idp, Lit(<< " " >>),
           key, Lit(<< " " >>), valp >>, "json")

\* f'post meta update {quote(id)} {quote(key)} {quote(subkey)} {quote(value)}'
PostMetaUpdate4(idp, key, subkey, valp) ==
    Cmd(<< Lit(<< "post", " ", "meta", " ", "update", " " >>), idp, Lit(<< " " >>),
           key, Lit(<< " " >>), subkey, Lit(<< " " >>), valp >>, "json")

\* shlex.quote("...") of a string written in the code
QuotedLit(atoms) == Lit(quote(atoms))

\* shlex.quote(str(x)) of the id that a creating command returned
CreatedId == Quoted("remote", "", "integer", Str(NewId), "")

\* f' --post_content={shlex.quote(content)}' when content is truthy
ContentOption(content, vc) ==
    IF Truthy(content)
    THEN << Lit(<< " ", "--post_content=" >>),
            Quoted("caller", "content", "string", vc.val.s, vc.by) >>
    ELSE << >>

CourseStatuses == { << "publish" >>, << "draft" >>, << "private" >> }

create_course(title, content, status, price, certificate_id, remote) ==
    LET vt == _validate_string(title, "title", IntV(TITLE_MAX_LENGTH), FALSE)
        vc == IF Truthy(content)
              THEN _validate_string(content, "content", IntV(CONTENT_MAX_LENGTH), TRUE)
              ELSE Unvalidated(content)
        vs == _validate_literal(status, "status", CourseStatuses)
        vp == IF price.t # "none" THEN _validate_float(price, "price", 0)
              ELSE Unvalidated(price)
        vi == IF certificate_id.t # "none"
              THEN _validate_positive_int(certificate_id, "certificate_id", -1)
              ELSE Unvalidated(certificate_id)
        e == FirstError(<< vt, vc, vs, vp, vi >>)
        create ==
            Cmd(<< Lit(<< "post", " ", "create", " ", "--post_type=sfwd-courses", " ",
                         "--post_title=" >>),
                   Quoted("caller", "title", "string", vt.val.s, vt.by),
                   Lit(<< " ", "--post_status=" >>),
                   Bare("caller", "status", "enum", vs.val.s, vs.by) >>
                \o ContentOption(content, vc), "json")
        set_price ==
            PostMetaUpdate4(CreatedId, QuotedLit(<< "_sfwd-courses" >>),
                QuotedLit(<< "_sfwd-courses", "[", "sfwd-courses_course_price", "]" >>),
                Quoted("caller", "price", "float", Str(vp.val), vp.by))
        set_certificate ==
            PostMetaUpdate4(CreatedId, QuotedLit(<< "_sfwd-courses" >>),
                QuotedLit(<< "_sfwd-courses", "[", "sfwd-courses_certificate", "]" >>),
                Quoted("caller", "certificate_id", "integer", Str(vi.val), vi.by))
        plan == << create >>
                \o (IF price.t # "none" THEN << set_price >> ELSE << >>)
                \o (IF Truthy(certificate_id) THEN << set_certificate >> ELSE << >>)
    IN  IF e # NoError THEN Raise(e, << >>) ELSE ExecuteCreate(plan, remote)

update_course(course_id, title, content, status, price, remote) ==
    LET vi == _validate_positive_int(course_id, "course_id", -1)
        vt == IF title.t # "none"
              THEN _validate_string(title, "title", IntV(TITLE_MAX_LENGTH), FALSE)
              ELSE Unvalidated(title)
        vc == IF content.t # "none"
              THEN _validate_string(content, "content", IntV(CONTENT_MAX_LENGTH), TRUE)
              ELSE Unvalidated(content)
        vs == IF status.t # "none" THEN _validate_literal(status, "status", CourseStatuses)
              ELSE Unvalidated(status)
        vp == IF price.t # "none" THEN _validate_float(price, "price", 0)
              ELSE Unvalidated(price)
        e == FirstError(<< vi, vt, vc, vs, vp >>)
        idp == Quoted("caller", "course_id", "integer", Str(vi.val), vi.by)
        updates ==
            (IF Truthy(title)
             THEN << Lit(<< " ", "--post_title=" >>),
                     Quoted("caller", "title", "string", vt.val.s, vt.by) >>
             ELSE << >>)
            \o (IF content.t # "none"
                THEN << Lit(<< " ", "--post_content=" >>),
                        Quoted("caller", "content", "string", vc.val.s, vc.by) >>
                ELSE << >>)
            \o (IF Truthy(status)
                THEN << Lit(<< " ", "--post_status=" >>),
                        Bare("caller", "status", "enum", vs.val.s, vs.by) >>
                ELSE << >>)
        update == Cmd(<< Lit(<< "post", " ", "update", " " >>), idp >> \o updates, "json")
        set_price ==
            PostMetaUpdate4(idp, QuotedLit(<< "_sfwd-courses" >>),
                QuotedLit(<< "_sfwd-courses", "[", "sfwd-courses_course_price", "]" >>),
                Quoted("caller", "price", "float", Str(vp.val), vp.by))
        plan == (IF updates # << >> THEN << update >> ELSE << >>)
                \o (IF price.t # "none" THEN << set_price >> ELSE << >>)
    IN  IF e # NoError THEN Raise(e, << >>) ELSE Execute(plan, remote)

\* Variant of delete_course that sends the command before it looks at the id.
delete_course_validates_late(course_id, force, remote) ==
    LET vi == _validate_positive_int(course_id, "course_id", -1)
        delete ==
            Cmd(<< Lit(<< "post", " ", "delete", " " >>),
                   Quoted("caller", "course_id", "integer", Str(course_id), "") >>
                \o (IF Truthy(force) THEN << Lit(<< " ", "--force" >>) >> ELSE << >>),
                "json")
    IN  IF remote.failAt = 1 THEN Raise(WPCLIError, << delete >>)
        ELSE IF ~vi.ok THEN Raise(vi.err, << delete >>)
        ELSE Ok(<< delete >>)

\* force is not rendered: its truth decides whether ' --force' is appended
delete_course(course_id, force, remote) ==
    LET vi == _validate_positive_int(course_id, "course_id", -1)
        delete ==
            Cmd(<< Lit(<< "post", " ", "delete", " " >>),
                   Quoted("caller", "course_id", "integer", Str(vi.val), vi.by) >>
                \o (IF Truthy(force) THEN << Lit(<< " ", "--force" >>) >> ELSE << >>),
                "json")
    IN  IF ~vi.ok THEN Raise(vi.err, << >>) ELSE Execute(<< delete >>, remote)

\* the two commands of enroll_user
enroll_user_cmds(user_id, course_id) ==
    LET v1 == _validate_positive_int(user_id, "user_id", -1)
        v2 == _validate_positive_int(course_id, "course_id", -1)
        up == Quoted("caller", "user_id", "integer", Str(v1.val), v1.by)
        cp == Quoted("caller", "course_id", "integer", Str(v2.val), v2.by)
    IN  << Cmd(<< Lit(<< "user", " ", "meta", " ", "add", " " >>), up, Lit(<< " " >>),
                  Quoted("caller", "course_id", "integer",
                         << "course_enrolled_" >> \o Str(v2.val), v2.by),
                  Lit(<< " " >>), cp >>, "json"),
           Cmd(<< Lit(<< "post", " ", "meta", " ", "add", " " >>), cp, Lit(<< " " >>),
                  QuotedLit(<< "learndash_course_users" >>), Lit(<< " " >>), up >>, "json") >>

create_quiz(course_id, lesson_id, title, description, passing_score, certificate_id, remote) ==
    LET vc == _validate_positive_int(course_id, "course_id", -1)
        vl == IF lesson_id.t # "none" THEN _validate_positive_int(lesson_id, "lesson_id", -1)
              ELSE Unvalidated(lesson_id)
        vt == _validate_string(title, "title", IntV(TITLE_MAX_LENGTH), FALSE)
        vd == IF Truthy(description)
              THEN _validate_string(description, "description", IntV(CONTENT_MAX_LENGTH), TRUE)
              ELSE Unvalidated(description)
        vp == _validate_int_range(passing_score, "passing_score", 0, 100)
        vi == IF certificate_id.t # "none"
              THEN _validate_positive_int(certificate_id, "certificate_id", -1)
              ELSE Unvalidated(certificate_id)
        e == FirstError(<< vc, vl, vt, vd, vp, vi >>)
        create ==
            Cmd(<< Lit(<< "post", " ", "create", " ", "--post_type=sfwd-quiz", " ",
                         "--post_title=" >>),
                   Quoted("caller", "title", "string", vt.val.s, vt.by),
                   Lit(<< " ", "--post_status=publish" >>) >>
                \o (IF Truthy(description)
                    THEN << Lit(<< " ", "--post_content=" >>),
                            Quoted("caller", "description", "string", vd.val.s, vd.by) >>
                    ELSE << >>), "json")
        plan == << create,
                   PostMetaUpdate(CreatedId, QuotedLit(<< "course_id" >>),
                       Quoted("caller", "course_id", "integer", Str(vc.val), vc.by)) >>
                \o (IF Truthy(lesson_id)
                    THEN << PostMetaUpdate(CreatedId, QuotedLit(<< "lesson_id" >>),
                              Quoted("caller", "lesson_id", "integer", Str(vl.val), vl.by)) >>
                    ELSE << >>)
                \o << PostMetaUpdate4(CreatedId, QuotedLit(<< "_sfwd-quiz" >>),
                        QuotedLit(<< "_sfwd-quiz", "[", "sfwd-quiz_passingpercentage", "]" >>),
                        Quoted("caller", "passing_score", "integer", Str(vp.val), vp.by)) >>
                \o (IF Truthy(certificate_id)
                    THEN << PostMetaUpdate4(CreatedId, QuotedLit(<< "_sfwd-quiz" >>),
                              QuotedLit(<< "_sfwd-quiz", "[", "sfwd-quiz_certificate", "]" >>),
                              Quoted("caller", "certificate_id", "integer", Str(vi.val), vi.by)) >>
                    ELSE << >>)
    IN  IF e # NoError THEN Raise(e, << >>) ELSE ExecuteCreate(plan, remote)

-----------------------------------------------------------------------------
(* Lessons and topics; duplicate_lesson, which reads the original from the *)
(* remote end before it creates the copy.  from maps each parameter of a   *)
(* nested call to where its value came from.                               *)

\* WPCLIClient.get_post: f"post get {post_id}"
get_post(idp) == Cmd(<< Lit(<< "post", " ", "get", " " >>), idp >>, "json")

LessonStatuses == { << "publish" >>, << "draft" >> }

LessonParams == { "course_id", "lesson_id", "title", "content", "status", "order" }
FromCaller == [p \in LessonParams |-> "caller"]

\* what "post get" of a lesson carries as meta course_id
HasCourse(remote) == remote.original \in { "ok", "long_title", "bad_course" }
RemoteCourseId(remote) == IF remote.original = "bad_course" THEN IntV(-1) ELSE IntV(9)
RemoteTitle(remote) ==
    IF remote.original = "long_title" THEN [k \in 1..TITLE_MAX_LENGTH |-> "A"]
    ELSE << "Lesson" >>

create_lesson(course_id, title, content, status, order, from, remote) ==
    LET vi == _validate_positive_int(course_id, "course_id", -1)
        vt == _validate_string(title, "title", IntV(TITLE_MAX_LENGTH), FALSE)
        vc == IF Truthy(content)
              THEN _validate_string(content, "content", IntV(CONTENT_MAX_LENGTH), TRUE)
              ELSE Unvalidated(content)
        vs == _validate_literal(status, "status", LessonStatuses)
        vo == IF order.t # "none" THEN _validate_positive_int(order, "order", -1)
              ELSE Unvalidated(order)
        e == FirstError(<< vi, vt, vc, vs, vo >>)
        cp == Quoted(from.course_id, "course_id", "integer", Str(vi.val), vi.by)
        create ==
            Cmd(<< Lit(<< "post", " ", "create", " ", "--post_type=sfwd-lessons", " ",
                         "--post_title=" >>),
                   Quoted(from.title, "title", "string", vt.val.s, vt.by),
                   Lit(<< " ", "--post_status=" >>),
                   Bare(from.status, "status", "enum", vs.val.s, vs.by) >>
                \o (IF Truthy(content)
                    THEN << Lit(<< " ", "--post_content=" >>),
                            Quoted(from.content, "content", "string", vc.val.s, vc.by) >>
                    ELSE << >>), "json")
        plan == << create,
                   PostMetaUpdate(CreatedId, QuotedLit(<< "course_id" >>), cp),
                   PostMetaUpdate(CreatedId,
                       Quoted(from.course_id, "course_id", "integer",
                              << "ld_course_" >> \o Str(vi.val), vi.by), cp) >>
                \o (IF order.t # "none"
                    THEN << PostMetaUpdate(CreatedId, QuotedLit(<< "lesson_order" >>),
                              Quoted(from.order, "order", "integer", Str(vo.val), vo.by)) >>
                    ELSE << >>)
    IN  IF e # NoError THEN Raise(e, << >>) ELSE ExecuteCreate(plan, remote)

create_topic(lesson_id, title, content, status, order, from, remote) ==
    LET vi == _validate_positive_int(lesson_id, "lesson_id", -1)
        vt == _validate_string(title, "title", IntV(TITLE_MAX_LENGTH), FALSE)
        vc == IF Truthy(content)
              THEN _validate_string(content, "content", IntV(CONTENT_MAX_LENGTH), TRUE)
              ELSE Unvalidated(content)
        vs == _validate_literal(status, "status", LessonStatuses)
        vo == IF order.t # "none" THEN _validate_positive_int(order, "order", -1)
              ELSE Unvalidated(order)
        e == FirstError(<< vi, vt, vc, vs, vo >>)
        create ==
            Cmd(<< Lit(<< "post", " ", "create", " ", "--post_type=sfwd-topic", " ",
                         "--post_title=" >>),
                   Quoted(from.title, "title", "string", vt.val.s, vt.by),
                   Lit(<< " ", "--post_status=" >>),
                   Bare(from.status, "status", "enum", vs.val.s, vs.by) >>
                \o (IF Truthy(content)
                    THEN << Lit(<< " ", "--post_content=" >>),
                            Quoted(from.content, "content", "string", vc.val.s, vc.by) >>
                    ELSE << >>), "json")
        rc == Quoted("remote", "", "integer", Str(RemoteCourseId(remote)), "")
        plan == << create,
                   get_post(Bare(from.lesson_id, "lesson_id", "integer", Str(vi.val), vi.by)),
                   PostMetaUpdate(CreatedId, QuotedLit(<< "lesson_id" >>),
                       Quoted(from.lesson_id, "lesson_id", "integer", Str(vi.val), vi.by)) >>
                \o (IF HasCourse(remote)
                    THEN << PostMetaUpdate(CreatedId, QuotedLit(<< "course_id" >>), rc),
                            PostMetaUpdate(CreatedId,
                                Quoted("remote", "", "integer",
                                       << "ld_course_" >> \o Str(RemoteCourseId(remote)), ""),
                                rc) >>
                    ELSE << >>)
                \o (IF order.t # "none"
                    THEN << PostMetaUpdate(CreatedId, QuotedLit(<< "topic_order" >>),
                              Quoted(from.order, "order", "integer", Str(vo.val), vo.by)) >>
                    ELSE << >>)
    IN  IF e # NoError THEN Raise(e, << >>) ELSE ExecuteCreate(plan, remote)

list_lesson_topics(lesson_id, remote) ==
    LET vi == _validate_positive_int(lesson_id, "lesson_id", -1)
        list ==
            Cmd(<< Lit(<< "post", " ", "list", " ", "--post_type=sfwd-topic", " ",
                         "--meta_key=lesson_id", " ", "--meta_value=" >>),
                   Quoted("caller", "lesson_id", "integer", Str(vi.val), vi.by),
                   Lit(<< " ", "--orderby=menu_order", " ", "--order=ASC" >>) >>, "json")
    IN  IF ~vi.ok THEN Raise(vi.err, << >>) ELSE Execute(<< list >>, remote)

\* raise ValueError(f"Lesson {lesson_id} not found") / (... has no associated course)
LessonNotFound == ValueError("", -1, "not found", NoneV)
NoAssociatedCourse == ValueError("", -1, "has no associated course", NoneV)

FromRemote == [p \in LessonParams |-> IF p = "status" THEN "static" ELSE "remote"]

\* the loop over original_topics: get the topic, create its copy
RECURSIVE duplicate_topics(_, _)
duplicate_topics(n, remote) ==
    IF n = 0 THEN Ok(<< >>)
    ELSE LET r1 == Execute(<< get_post(Bare("remote", "", "integer", << "5", "5" >>, "")) >>,
                           remote)
             r2 == create_topic(NewId, StrV(<< "Copy", " ", "of", " ", "Topic" >>),
                                StrV(<< "Body" >>), StrV(<< "draft" >>), NoneV,
                                FromRemote, After(remote, 1))
             r12 == Then(r1, r2)
         IN  IF r12.raised THEN r12
             ELSE Then(r12, duplicate_topics(n - 1, After(remote, Len(r12.cmds))))

duplicate_lesson(lesson_id, new_title, include_topics, remote) ==
    LET vi == _validate_positive_int(lesson_id, "lesson_id", -1)
        vt == IF new_title.t # "none"
              THEN _validate_string(new_title, "new_title", IntV(TITLE_MAX_LENGTH), FALSE)
              ELSE Unvalidated(new_title)
        e == FirstError(<< vi, vt >>)
        r1 == Execute(<< get_post(Bare("caller", "lesson_id", "integer", Str(vi.val), vi.by)) >>,
                      remote)
        duplicate_title ==
            IF Truthy(new_title) THEN new_title
            ELSE StrV(<< "Copy", " ", "of", " " >> \o RemoteTitle(remote))
        r2 == IF remote.original = "missing" THEN Raise(LessonNotFound, << >>)
              ELSE IF ~HasCourse(remote) THEN Raise(NoAssociatedCourse, << >>)
              ELSE create_lesson(RemoteCourseId(remote), duplicate_title,
                                 StrV(<< "Body" >>), StrV(<< "draft" >>), NoneV,
                                 [FromRemote EXCEPT
                                    !.title = IF Truthy(new_title) THEN "caller" ELSE "remote"],
                                 After(remote, 1))
        r12 == Then(r1, r2)
        r3 == IF Truthy(include_topics)
              THEN list_lesson_topics(lesson_id, After(remote, Len(r12.cmds)))
              ELSE Ok(<< >>)
        r123 == Then(r12, r3)
        r4 == IF Truthy(include_topics)
              THEN duplicate_topics(remote.topics, After(remote, Len(r123.cmds)))
              ELSE Ok(<< >>)
    IN  IF e # NoError THEN Raise(e, << >>)
        ELSE IF r12.raised THEN r12
        ELSE IF r123.raised THEN r123
        ELSE Then(r123, r4)

-----------------------------------------------------------------------------
(* WPCLIClient's listing operations, list_courses on top of them, and the  *)
(* operations that send PHP code.                                          *)

\* cmd = "plugin list"; if status: cmd += f" --status={status}"
list_plugins(status, remote) ==
    Execute(<< Cmd(<< Lit(<< "plugin", " ", "list" >>) >>
                   \o (IF Truthy(status)
                       THEN << Lit(<< " ", "--status=" >>),
                               Bare("caller", "status", "enum", Str(status), "") >>
                       ELSE << >>), "json") >>, remote)

\* cmd = f"post list --post_type={post_type} --s='{search}'"
search_posts(search, post_type, remote) ==
    Execute(<< Cmd(<< Lit(<< "post", " ", "list", " ", "--post_type=" >>),
                      Bare("caller", "post_type", "string", Str(post_type), ""),
                      Lit(<< " ", "--s=", "'" >>),
                      Bare("caller", "search", "string", Str(search), ""),
                      Lit(<< "'" >>) >>, "json") >>, remote)

\* cmd = f"post list --post_type={post_type} --post_status={post_status}
\*         --posts_per_page={limit}"
list_posts(post_type, post_status, limit, from, remote) ==
    Execute(<< Cmd(<< Lit(<< "post", " ", "list", " ", "--post_type=" >>),
                      Bare(from.post_type, "post_type", "string", Str(post_type), ""),
                      Lit(<< " ", "--post_status=" >>),
                      Bare(from.post_status, "post_status", "enum", Str(post_status), ""),
                      Lit(<< " ", "--posts_per_page=" >>),
                      Bare(from.limit, "limit", "integer", Str(limit), "") >>,
                   "json") >>, remote)

\* return self.cli.list_posts(post_type="sfwd-courses", post_status=status, limit=limit)
list_courses(status, limit, remote) ==
    list_posts(StrV(<< "sfwd-courses" >>), status, limit,
               [post_type |-> "static", post_status |-> "caller", limit |-> "caller"],
               remote)

\* the PHP statement "$name = <value>;", and the rest of the PHP code, which
\* is written in the code and ends by printing the result (abridged)
PhpAssign(name, valp) ==
    << Lit(<< "$", name, " ", "=", " " >>), valp, Lit(<< ";", "\n" >>) >>

PhpRest == Lit(<< "\n", "echo", " ", "json_encode", "(", "$", "result", ")", ";", "\n" >>)

\* time_php = str(completion_time) if completion_time else "time()"
mark_course_complete(user_id, course_id, completion_time, remote) ==
    LET vu == _validate_positive_int(user_id, "user_id", -1)
        vc == _validate_positive_int(course_id, "course_id", -1)
        e == FirstError(<< vu, vc >>)
        time_php == IF Truthy(completion_time)
                    THEN Bare("caller", "completion_time", "integer",
                              Str(completion_time), "")
                    ELSE Lit(<< "time", "(", ")" >>)
        php_code ==
            << Lit(<< "\n" >>) >>
            \o PhpAssign("user_id", Bare("caller", "user_id", "integer", Str(vu.val), vu.by))
            \o PhpAssign("course_id", Bare("caller", "course_id", "integer", Str(vc.val), vc.by))
            \o PhpAssign("completion_time", time_php)
            \o << PhpRest >>
    IN  IF e # NoError THEN Raise(e, << >>) ELSE Execute(<< Eval(php_code) >>, remote)

\* ",".join(map(str, validated_ids))
RECURSIVE JoinIds(_, _)
JoinIds(items, k) ==
    IF k > Len(items) THEN << >>
    ELSE (IF k > 1 THEN << Lit(<< "," >>) >> ELSE << >>)
         \o << Bare("caller", "user_ids", "integer", Str(items[k]),
                    _validate_positive_int(items[k], "user_ids", k - 1).by) >>
         \o JoinIds(items, k + 1)

\* user_ids is None (not a list here) or a list; remove_from_source is not
\* rendered: its truth decides between "true" and "false"
migrate_students(from_course_id, to_course_id, user_ids, remove_from_source, remote) ==
    LET vf == _validate_positive_int(from_course_id, "from_course_id", -1)
        vt == _validate_positive_int(to_course_id, "to_course_id", -1)
        vids == [k \in 1..Len(user_ids.items) |->
                    _validate_positive_int(user_ids.items[k], "user_ids", k - 1)]
        e == FirstError(<< vf, vt >> \o vids)
        user_ids_php ==
            IF user_ids.items # << >>
            THEN << Lit(<< "array", "(" >>) >> \o JoinIds(user_ids.items, 1)
                 \o << Lit(<< ")" >>) >>
            ELSE << Lit(<< "null" >>) >>
        php_code ==
            << Lit(<< "\n" >>) >>
            \o PhpAssign("from_course",
                   Bare("caller", "from_course_id", "integer", Str(vf.val), vf.by))
            \o PhpAssign("to_course",
                   Bare("caller", "to_course_id", "integer", Str(vt.val), vt.by))
            \o << Lit(<< "$", "specific_users", " ", "=", " " >>) >> \o user_ids_php
            \o << Lit(<< ";", "\n" >>) >>
            \o PhpAssign("remove_from_source",
                   Lit(IF Truthy(remove_from_source) THEN << "true" >> ELSE << "false" >>))
            \o << PhpRest >>
    IN  IF e # NoError THEN Raise(e, << >>) ELSE Execute(<< Eval(php_code) >>, remote)

-----------------------------------------------------------------------------
(* Calls of the single-entity operations *)

Ids == { IntV(7), IntV(-1), StrV(<< "not_an_int" >>) }
OptionalIds == { NoneV, IntV(3), IntV(0) }

\* "A" * 201
LongTitle == [k \in 1..(TITLE_MAX_LENGTH + 1) |-> "A"]

Titles == { StrV(<< "T" >>), StrV(<< >>), StrV(MaliciousTitle), StrV(LongTitle), IntV(5) }
OptionalTitles == { NoneV, StrV(<< "T" >>), StrV(<< >>), StrV(LongTitle) }
Contents == { StrV(<< >>), StrV(<< "$", "(", "whoami", ")" >>) }
OptionalContents == { NoneV, StrV(<< >>), StrV(<< "$", "(", "whoami", ")" >>) }

HostileStatus == << "any", ";", " ", "rm", " ", "-rf", " ", "/" >>
Statuses == { StrV(<< "draft" >>), StrV(<< "invalid_status" >>), StrV(HostileStatus) }
OptionalStatuses == { NoneV, StrV(<< "publish" >>), StrV(HostileStatus) }

Prices == { NoneV, FloatV(10), FloatV(-10) }
Scores == { IntV(80), IntV(150) }
Flags == { BoolV(TRUE), BoolV(FALSE) }

\* query = "x'; rm -rf /; '"
HostileSearch == << "x", "'", ";", " ", "rm", " ", "-rf", " ", "/", ";", " ", "'" >>
Searches == { StrV(<< "hello" >>), StrV(<< "two", " ", "words" >>), StrV(HostileSearch) }
PostTypes == { StrV(<< "post" >>), StrV(<< "page", ";", "id" >>) }
ListStatuses == { StrV(<< "any" >>), StrV(HostileStatus) }
PluginStatuses == { NoneV, StrV(<< "active" >>), StrV(HostileStatus) }
Limits == { IntV(50), StrV(<< "1", ";", "id" >>) }

\* completion_time = "1; system('id')"
HostileTime == << "1", ";", " ", "system", "(", "'", "id", "'", ")" >>
CompletionTimes == { NoneV, IntV(0), IntV(1700000000), StrV(HostileTime) }

MigrateLists == { NotAList, AList(<< >>), AList(<< IntV(5) >>),
                  AList(<< IntV(5), IntV(-2) >>), AList(<< IntV(5), IntV(6) >>) }

\* what a call leaves behind: the commands handed to cli.execute and the
\* error it raised, if any
OpCall(args, res) ==
    /\ op' = args.name
    /\ call' = args
    /\ error' = res.err
    /\ cmds' = res.cmds
    /\ executed' = Len(res.cmds)
    /\ pc' = IF res.raised THEN "raised" ELSE "done"
    /\ exc' = res.err.exc
    /\ UNCHANGED << arg_id, targets, bulkvars, textvars, sessvars >>

create_course_call ==
    /\ pc = "idle"
    /\ \E title \in Titles, content \in Contents, status \in Statuses, price \in Prices,
          certificate_id \in OptionalIds, remote \in Remotes :
        OpCall([name |-> "create_course", title |-> title, content |-> content,
                status |-> status, price |-> price, certificate_id |-> certificate_id],
               create_course(title, content, status, price, certificate_id, remote))

update_course_call ==
    /\ pc = "idle"
    /\ \E course_id \in Ids, title \in OptionalTitles, content \in OptionalContents,
          status \in OptionalStatuses, price \in Prices, remote \in Remotes :
        OpCall([name |-> "update_course", course_id |-> course_id, title |-> title,
                content |-> content, status |-> status, price |-> price],
               update_course(course_id, title, content, status, price, remote))

delete_course_call ==
    /\ pc = "idle"
    /\ \E course_id \in Ids, force \in Flags, remote \in Remotes :
        OpCall([name |-> "delete_course", course_id |-> course_id, force |-> force],
               delete_course(course_id, force, remote))

enroll_user_call ==
    /\ pc = "idle"
    /\ \E user_id \in Ids, course_id \in Ids, remote \in RemoteOutcomes2 :
        LET res == enroll_user(user_id, course_id, remote)
        IN  OpCall([name |-> "enroll_user", user_id |-> user_id, course_id |-> course_id],
                   [raised |-> res.raised, err |-> res.err,
                    cmds |-> SubSeq(enroll_user_cmds(user_id, course_id), 1, res.ncmds)])

create_quiz_call ==
    /\ pc = "idle"
    /\ \E course_id \in Ids, lesson_id \in OptionalIds, title \in Titles,
          description \in Contents, passing_score \in Scores,
          certificate_id \in OptionalIds, remote \in Remotes :
        OpCall([name |-> "create_quiz", course_id |-> course_id, lesson_id |-> lesson_id,
                title |-> title, description |-> description,
                passing_score |-> passing_score, certificate_id |-> certificate_id],
               create_quiz(course_id, lesson_id, title, description, passing_score,
                           certificate_id, remote))

create_lesson_call ==
    /\ pc = "idle"
    /\ \E course_id \in Ids, title \in Titles, content \in Contents, status \in Statuses,
          order \in OptionalIds, remote \in Remotes :
        OpCall([name |-> "create_lesson", course_id |-> course_id, title |-> title,
                content |-> content, status |-> status, order |-> order],
               create_lesson(course_id, title, content, status, order, FromCaller, remote))

duplicate_lesson_call ==
    /\ pc = "idle"
    /\ \E lesson_id \in Ids, new_title \in OptionalTitles, include_topics \in Flags,
          remote \in LessonRemotes :
        OpCall([name |-> "duplicate_lesson", lesson_id |-> lesson_id,
                new_title |-> new_title, include_topics |-> include_topics],
               duplicate_lesson(lesson_id, new_title, include_topics, remote))

list_courses_call ==
    /\ pc = "idle"
    /\ \E status \in ListStatuses, limit \in Limits, remote \in Remotes :
        OpCall([name |-> "list_courses", status |-> status, limit |-> limit],
               list_courses(status, limit, remote))

list_posts_call ==
    /\ pc = "idle"
    /\ \E post_type \in PostTypes, post_status \in ListStatuses, limit \in Limits,
          remote \in Remotes :
        OpCall([name |-> "list_posts", post_type |-> post_type,
                post_status |-> post_status, limit |-> limit],
               list_posts(post_type, post_status, limit,
                          [post_type |-> "caller", post_status |-> "caller",
                           limit |-> "caller"], remote))

search_posts_call ==
    /\ pc = "idle"
    /\ \E search \in Searches, post_type \in PostTypes, remote \in Remotes :
        OpCall([name |-> "search_posts", search |-> search, post_type |-> post_type],
               search_posts(search, post_type, remote))

list_plugins_call ==
    /\ pc = "idle"
    /\ \E status \in PluginStatuses, remote \in Remotes :
        OpCall([name |-> "list_plugins", status |-> status],
               list_plugins(status, remote))

mark_course_complete_call ==
    /\ pc = "idle"
    /\ \E user_id \in Ids, course_id \in Ids, completion_time \in CompletionTimes,
          remote \in Remotes :
        OpCall([name |-> "mark_course_complete", user_id |-> user_id,
                course_id |-> course_id, completion_time |-> completion_time],
               mark_course_complete(user_id, course_id, completion_time, remote))

migrate_students_call ==
    /\ pc = "idle"
    /\ \E from_course_id \in Ids, to_course_id \in Ids, user_ids \in MigrateLists,
          remove_from_source \in Flags, remote \in Remotes :
        OpCall([name |-> "migrate_students", from_course_id |-> from_course_id,
                to_course_id |-> to_course_id, user_ids |-> user_ids,
                remove_from_source |-> remove_from_source],
               migrate_students(from_course_id, to_course_id, user_ids,
                                remove_from_source, remote))

\* The single-entity calls, and the upfront checks of the bulk runners.
NextOps ==
    \/ create_course_call
    \/ update_course_call
    \/ delete_course_call
    \/ enroll_user_call
    \/ create_quiz_call
    \/ create_lesson_call
    \/ duplicate_lesson_call
    \/ list_courses_call
    \/ list_posts_call
    \/ search_posts_call
    \/ list_plugins_call
    \/ mark_course_complete_call
    \/ migrate_students_call
    \/ bulk_enroll_users_call
    \/ bulk_add_to_group_call
    \/ batch_update_lesson_content_call

SpecOps == Init /\ [][NextOps]_vars

-----------------------------------------------------------------------------
(* Properties of the single-entity operations and of command construction *)

\* the call ended with a ValueError raised by a _validate_* helper or by the
\* list checks at the top of a bulk runner
ValidationRaised ==
    /\ pc = "raised"
    /\ error.exc = "ValueError"
    /\ error.msg \in ValidatorMessages \cup { "must be a list" }

\* the rejected value is an argument of this call: the one the error names
RejectsArgument ==
    /\ ValidationRaised
    /\ error.param \in DOMAIN call
    /\ IF error.idx < 0 THEN call[error.param] = error.got
       ELSE /\ error.idx < Len(call[error.param].items)
            /\ call[error.param].items[error.idx + 1] = error.got

\* C7 as stated: whenever a call raises a validation ValueError, no command
\* has been passed to the executor earlier in that call.
Claim7_Original == ValidationRaised => (cmds = << >> /\ executed = 0)

\* C7, amended: whenever a call raises a validation ValueError that rejects
\* one of the call's own arguments (single-entity operations and the upfront
\* checks of the bulk runners), no command has been passed to the executor
\* earlier in that call.
Claim7_ArgumentValidationBeforeCommands ==
    RejectsArgument => (cmds = << >> /\ executed = 0)

\* C7 witness: duplicate_lesson rejected the caller's new_title, and
\* bulk_enroll_users rejected an empty list, before any command.
Claim7_Witness ==
    /\ RejectsArgument
    /\ cmds = << >>
    /\ \/ op = "duplicate_lesson" /\ error.param = "new_title"
       \/ op = "bulk_enroll_users" /\ error.msg = "cannot be empty"

\* the caller-supplied parts of the commands a call executed, each with the
\* number of times shlex.quote was applied on its way into the text (to the
\* value itself, or to the PHP code it was put into)
CallerParts ==
    UNION { { [part |-> cmds[k].parts[j],
               q |-> (IF cmds[k].parts[j].own THEN 1 ELSE 0)
                     + (IF cmds[k].php THEN 1 ELSE 0)] :
                j \in { x \in 1..Len(cmds[k].parts) : cmds[k].parts[x].src = "caller" } } :
            k \in 1..Len(cmds) }

\* C9: every caller-supplied value in an executed command text went through
\* quoting exactly once; none is concatenated into the text unescaped.  A
\* value that passed its validator in the same call and is rendered bare is
\* not counted against the claim here.
Claim9_CallerValuesQuotedOnce ==
    \A cp \in CallerParts : cp.q = 1 \/ (cp.q = 0 /\ cp.part.by # "")

\* the validators that constrain the characters of a value of each kind
MatchingValidators(kind) ==
    CASE kind = "integer" -> { "_validate_positive_int", "_validate_int_range" }
      [] kind = "enum" -> { "_validate_literal" }
      [] OTHER -> { }

\* C10: every integer, enum or flag value rendered into command text, or
\* into PHP code embedded in it, without its own quoting has first passed
\* the matching validator in the same call.
Claim10_BareValuesValidated ==
    \A cp \in CallerParts :
        (~cp.part.own /\ cp.part.kind \in { "integer", "enum", "flag" })
            => cp.part.by \in MatchingValidators(cp.part.kind)

-----------------------------------------------------------------------------
(* WPCLIClient: the SSH session (wp_cli.py) and the server's get_clients   *)
(*                                                                         *)
(* A call that blocks in the network (SSHClient.connect, and exec_command  *)
(* with recv_exit_status) is split where it blocks: the call runs up to    *)
(* the blocking point, the remote end answers (or never does), and the     *)
(* call runs on from the answer to its return.  pc is "idle" between       *)
(* calls, "connect" while blocked in SSHClient.connect and "exec" while    *)
(* blocked waiting for the exit status of a command.                       *)

MaxConnects == 2

\* the environments a process is started in: every required setting present
\* with any credential settings, or one required setting missing
Missing(e) ==
    { f \in { "WP_SITE_URL", "WP_SSH_HOST", "WP_SSH_USER", "WP_API_USER", "WP_API_PASSWORD" } :
        e[f] = Empty }
StartEnvs ==
    { e \in Envs : \/ Missing(e) = { }
                   \/ /\ Cardinality(Missing(e)) = 1
                      /\ e.WP_SSH_KEY_PATH = DefaultEnv.WP_SSH_KEY_PATH
                      /\ e.WP_SSH_PASSWORD = DefaultEnv.WP_SSH_PASSWORD }

\* a byte that is not valid UTF-8
InvalidByte == "<0xff>"

\* bytes.decode('utf-8'): raises on a byte sequence that is not UTF-8
Decodable(bytes) == \A k \in 1..Len(bytes) : bytes[k] # InvalidByte
decode(bytes) == [ok |-> Decodable(bytes), text |-> bytes]

ListV(elems) == [t |-> "list", n |-> 0, s |-> elems]

JsonDigits == { Digit(d) : d \in 0..9 }
DigitValue(c) == CHOOSE d \in 0..9 : Digit(d) = c

RECURSIVE SkipWs(_, _)
SkipWs(str, k) ==
    IF k <= Len(str) /\ str[k] \in Whitespace THEN SkipWs(str, k + 1) ELSE k

\* the digits of a JSON number from position k on: a leading 0 stands alone
RECURSIVE JsonInt(_, _, _)
JsonInt(str, k, acc) ==
    IF k <= Len(str) /\ str[k] \in JsonDigits
    THEN JsonInt(str, k + 1, 10 * acc + DigitValue(str[k]))
    ELSE [ok |-> TRUE, val |-> IntV(acc), next |-> k]

JsonFail == [ok |-> FALSE, val |-> NoneV, next |-> 0]

\* the JSON grammar restricted to integers, null and lists of those: the
\* value that starts at position k of str, and where it ends
RECURSIVE JsonValue(_, _)
RECURSIVE JsonElements(_, _, _, _)
JsonValue(str, k) ==
    LET j == SkipWs(str, k) IN
    IF j > Len(str) THEN JsonFail
    ELSE IF str[j] = "0" THEN [ok |-> TRUE, val |-> IntV(0), next |-> j + 1]
    ELSE IF str[j] \in JsonDigits THEN JsonInt(str, j, 0)
    ELSE IF j + 3 <= Len(str) /\ SubSeq(str, j, j + 3) = << "n", "u", "l", "l" >>
    THEN [ok |-> TRUE, val |-> NoneV, next |-> j + 4]
    ELSE IF str[j] = "[" THEN JsonElements(str, j + 1, << >>, TRUE)
    ELSE JsonFail

JsonElements(str, k, acc, first) ==
    LET j == SkipWs(str, k) IN
    IF j > Len(str) THEN JsonFail
    ELSE IF first /\ str[j] = "]" THEN [ok |-> TRUE, val |-> ListV(acc), next |-> j + 1]
    ELSE LET v == JsonValue(str, j)
             m == SkipWs(str, v.next)
         IN IF ~v.ok \/ m > Len(str) THEN JsonFail
            ELSE IF str[m] = "," THEN JsonElements(str, m + 1, Append(acc, v.val), FALSE)
            ELSE IF str[m] = "]"
            THEN [ok |-> TRUE, val |-> ListV(Append(acc, v.val)), next |-> m + 1]
            ELSE JsonFail

\* json.loads(str): ok is FALSE where it raises JSONDecodeError
json_loads(str) ==
    LET v == JsonValue(str, 1) IN
    IF v.ok /\ SkipWs(str, v.next) > Len(str) THEN v ELSE JsonFail

\* Variant of connect_kwargs that passes the password along with the key.
connect_kwargs_with_both(cfg) ==
    LET base == ("hostname" :> cfg.ssh_host) @@ ("username" :> cfg.ssh_user)
                @@ ("port" :> cfg.ssh_port)
        key == IF Truthy(cfg.ssh_key_path)
               THEN base @@ ("key_filename" :> cfg.ssh_key_path)
               ELSE base
    IN IF Truthy(cfg.ssh_password)
       THEN key @@ ("password" :> cfg.ssh_password)
            @@ ("look_for_keys" :> BoolV(FALSE)) @@ ("allow_agent" :> BoolV(FALSE))
       ELSE key

\* the arguments connect() passes to SSHClient.connect
connect_kwargs(cfg) ==
    LET base == ("hostname" :> cfg.ssh_host) @@ ("username" :> cfg.ssh_user)
                @@ ("port" :> cfg.ssh_port)
    IN IF Truthy(cfg.ssh_key_path)
       THEN base @@ ("key_filename" :> cfg.ssh_key_path)
       ELSE IF Truthy(cfg.ssh_password)
       THEN base @@ ("password" :> cfg.ssh_password)
            @@ ("look_for_keys" :> BoolV(FALSE)) @@ ("allow_agent" :> BoolV(FALSE))
       ELSE base

\* WPCLIClient(config): ssh_client starts as None
WPCLIClient(cfg) == [config |-> cfg]

\* paramiko.SSHClient(): state is "connecting" (inside SSHClient.connect),
\* "open" (connected and authenticated), "unauthenticated" (transport up,
\* authentication failed), "unconnected" (the host was never reached) or
\* "closed"; used records that exec_command was called on it
SSHClient(kwargs) == [state |-> "connecting", kwargs |-> kwargs, used |-> FALSE]

\* the states in which an underlying connection exists
LiveStates == { "connecting", "open", "unauthenticated" }
Live(k) == clients[k].state \in LiveStates

\* the states SSHClient.connect leaves behind when it raises
FailedStates == { "unauthenticated", "unconnected" }

SessionError(name) == [NoError EXCEPT !.exc = name]
WPCLIErrorOf(str) == [WPCLIError EXCEPT !.got = StrV(str)]

\* how SSHClient.connect ends for each answer of the network
ConnectAnswers == { "ok", "auth_failed", "unreachable" }
ConnectState(status) ==
    CASE status = "ok" -> "open"
      [] status = "auth_failed" -> "unauthenticated"
      [] OTHER -> "unconnected"
ConnectException(status) ==
    IF status = "auth_failed" THEN "AuthenticationException" ELSE "OSError"

\* what the remote command wrote and how it exited
ExitCodes == { 0, 1 }
Stdouts == { << >>, << "\n" >>, << "1", "2", "\n" >>, << "[", "1", ",", " ", "2", "]" >>,
             << "[", "1", "," >>, << "n", "u", "l", "l" >>, << "S", "u", "c", "c", "e", "s", "s" >>,
             << "1", " ", "w", "a", "r", "n" >>, << InvalidByte >> }
Stderrs == { << >>, << " ", "\n" >>, << "E", "r", "r", "\n" >>, << InvalidByte >> }

\* within a bulk run the remote command writes nothing to stdout and one
\* line to stderr
StdoutsOf(o) == IF o = "bulk_enroll_users" THEN { << >> } ELSE Stdouts
StderrsOf(o) == IF o = "bulk_enroll_users" THEN { << "E", "r", "r", "\n" >> } ELSE Stderrs

Commands == { << "plugin", " ", "list" >> }
Formats == { "json", "table", "csv" }

\* execute() from the exit status on: the value it returns or the error it raises
execute_result(format, exit_code, stdout, stderr) ==
    IF ~decode(stdout).ok \/ ~decode(stderr).ok
    THEN [raised |-> TRUE, err |-> SessionError("UnicodeDecodeError"), val |-> NoneV]
    ELSE LET output == Strip(decode(stdout).text)
             errtext == Strip(decode(stderr).text)
         IN IF exit_code # 0
            THEN [raised |-> TRUE, val |-> NoneV,
                  err |-> WPCLIErrorOf(IF errtext # << >> THEN errtext ELSE output)]
            ELSE IF format = "json" /\ output # << >>
            THEN LET parsed == json_loads(output)
                 IN [raised |-> FALSE, err |-> NoError,
                     val |-> IF parsed.ok THEN parsed.val ELSE StrV(output)]
            ELSE [raised |-> FALSE, err |-> NoError, val |-> StrV(output)]

\* the n-th cli.execute call of enroll_user(user_id, course_id)
enroll_user_execute(user_id, course_id, n) ==
    LET c == enroll_user_cmds(user_id, course_id)[n]
    IN [name |-> "execute", n |-> n, command |-> CommandText(c), format |-> c.format]

\* what the session actions leave alone
SessionFrame ==
    UNCHANGED << arg_id, executed, processed, outcomes, cmds, textvars, env, sitevars >>

\* the locals of a bulk run, untouched while no bulk run is going on
LoopFrame == UNCHANGED << targets, i, consecutive_failures, results >>

\* the timeout a blocking call was given (None: it blocks until answered)
TimeoutOf(kwargs) == IF "timeout" \in DOMAIN kwargs THEN kwargs["timeout"] ELSE NoneV

\* a call returns value
Return(value) ==
    /\ pc' = "idle"
    /\ exc' = ""
    /\ error' = NoError
    /\ returned' = value
    /\ network' = NoNetwork
    /\ LoopFrame

\* a call ends with exception e
RaiseOut(e) ==
    /\ pc' = "idle"
    /\ exc' = e.exc
    /\ error' = e
    /\ returned' = NoneV
    /\ network' = NoNetwork
    /\ LoopFrame

\* the report a bulk run returns
ReportV(rep) == [t |-> "dict", n |-> 0, s |-> << >>, report |-> rep]

\* bulk_enroll_users after the body of iteration i: the circuit breaker, then
\* the next iteration, or the return of the report when the breaker tripped
\* or the list is exhausted
BulkAdvance(rep, cf, trip) ==
    /\ network' = NoNetwork
    /\ exc' = ""
    /\ error' = NoError
    /\ IF trip \/ i + 1 = Len(targets)
       THEN /\ pc' = "idle"
            /\ returned' = ReportV(rep)
            /\ targets' = << >>
            /\ i' = 0
            /\ consecutive_failures' = 0
            /\ results' = EmptyReport(0)
       ELSE /\ pc' = "loop"
            /\ returned' = NoneV
            /\ i' = i + 1
            /\ consecutive_failures' = cf
            /\ results' = rep
            /\ UNCHANGED targets

\* the except branches of the loop body: enroll_user raised e
BulkFailure(e) ==
    LET cf == consecutive_failures + 1
        trip == cf >= MAX_CONSECUTIVE_FAILURES
    IN BulkAdvance([results EXCEPT !.failed = @ + 1,
                                   !.entries = Append(@, FailedEntry(targets[i + 1], e)),
                                   !.aborted = trip],
                   cf, trip)

\* enroll_user returned: the user is counted as enrolled
BulkSuccess == BulkAdvance([results EXCEPT !.succeeded = @ + 1], 0, FALSE)

\* an exception leaves execute(): it is caught by the loop of a bulk run,
\* and leaves the call otherwise
ExecuteRaises(bulk, e) == IF bulk THEN BulkFailure(e) ELSE RaiseOut(e)

\* connect() from the construction of the SSHClient to SSHClient.connect,
\* where it blocks
BeginConnect ==
    /\ handshakes < MaxConnects
    /\ clients' = Append(clients, SSHClient(connect_kwargs(wp_cli.config)))
    /\ ssh_client' = Len(clients) + 1
    /\ handshakes' = handshakes + 1
    /\ network' = [NoNetwork EXCEPT !.call = "connect", !.pending = TRUE,
                                    !.timeout = TimeoutOf(connect_kwargs(wp_cli.config))]
    /\ pc' = "connect"
    /\ exc' = ""
    /\ error' = NoError
    /\ returned' = NoneV
    /\ LoopFrame

\* execute() from the command text to exec_command and recv_exit_status,
\* where it blocks; cl is the state of the SSHClient objects at that point
\* and bulk tells that the caller is the loop of a bulk run.  exec_command
\* is called without a timeout, and raises at once on a client that is not
\* connected.
BeginExec(cl, cmdtext, bulk) ==
    /\ clients' = [cl EXCEPT ![ssh_client].used = TRUE]
    /\ UNCHANGED << ssh_client, handshakes >>
    /\ IF cl[ssh_client].state = "open"
       THEN /\ network' = [NoNetwork EXCEPT !.call = "exec", !.command = cmdtext,
                                            !.pending = TRUE, !.timeout = NoneV]
            /\ pc' = "exec"
            /\ exc' = ""
            /\ error' = NoError
            /\ returned' = NoneV
            /\ LoopFrame
       ELSE ExecuteRaises(bulk, SessionError("SSHException"))

\* get_clients() of server.py
get_clients ==
    /\ pc = "idle"
    /\ op' = "get_clients"
    /\ call' = [name |-> "get_clients"]
    /\ LET cfg == IF config = NoneV THEN from_env(env) ELSE config
           errors == IF config = NoneV THEN validate(cfg) ELSE << >>
       IN /\ config' = cfg
          /\ IF errors # << >>
             THEN /\ RaiseOut(ValueError("", -1, "Configuration errors", NoneV))
                  /\ UNCHANGED wp_cli
             ELSE /\ Return(NoneV)
                  /\ wp_cli' = IF wp_cli = NoneV THEN WPCLIClient(cfg) ELSE wp_cli
    /\ UNCHANGED << ssh_client, clients, handshakes >>
    /\ SessionFrame

\* Variant of connect() without the early return: it connects again even
\* when a client is held.
connect_call_reconnects ==
    /\ pc = "idle"
    /\ wp_cli # NoneV
    /\ op' = "connect"
    /\ call' = [name |-> "connect"]
    /\ BeginConnect
    /\ UNCHANGED << config, wp_cli >>
    /\ SessionFrame

\* WPCLIClient.connect() called on the server's client
connect_call ==
    /\ pc = "idle"
    /\ wp_cli # NoneV
    /\ op' = "connect"
    /\ call' = [name |-> "connect"]
    /\ IF ssh_client # 0
       THEN Return(NoneV) /\ UNCHANGED << ssh_client, clients, handshakes >>
       ELSE BeginConnect
    /\ UNCHANGED << config, wp_cli >>
    /\ SessionFrame

\* WPCLIClient.execute(command, format) called on the server's client
execute_call ==
    /\ pc = "idle"
    /\ wp_cli # NoneV
    /\ \E command \in Commands, format \in Formats :
        /\ op' = "execute"
        /\ call' = [name |-> "execute", command |-> command, format |-> format]
        /\ IF ssh_client # 0
           THEN BeginExec(clients, full_command(command, format), FALSE)
           ELSE BeginConnect
    /\ UNCHANGED << config, wp_cli >>
    /\ SessionFrame

\* the remote end answers the call the client is blocked in
remote_answers ==
    /\ network.pending
    /\ \/ /\ network.call = "connect"
          /\ \E status \in ConnectAnswers :
                network' = [network EXCEPT !.pending = FALSE, !.status = status]
       \/ /\ network.call = "exec"
          /\ \E exit_code \in ExitCodes, stdout \in StdoutsOf(op), stderr \in StderrsOf(op) :
                network' = [network EXCEPT !.pending = FALSE, !.exit_code = exit_code,
                                           !.stdout = stdout, !.stderr = stderr]
    /\ UNCHANGED << op, pc, exc, call, error, returned,
                    config, wp_cli, ssh_client, clients, handshakes >>
    /\ LoopFrame
    /\ SessionFrame

\* SSHClient.connect returns or raises; execute() goes on to its command
connect_return ==
    /\ pc = "connect"
    /\ ~network.pending
    /\ LET cl == [clients EXCEPT ![ssh_client].state = ConnectState(network.status)]
           bulk == op = "bulk_enroll_users"
       IN IF network.status # "ok"
          THEN /\ ExecuteRaises(bulk, SessionError(ConnectException(network.status)))
               /\ clients' = cl
               /\ UNCHANGED << ssh_client, handshakes >>
          ELSE IF op = "connect"
          THEN /\ Return(NoneV)
               /\ clients' = cl
               /\ UNCHANGED << ssh_client, handshakes >>
          ELSE BeginExec(cl, full_command(call.command, call.format), bulk)
    /\ UNCHANGED << op, call, config, wp_cli >>
    /\ SessionFrame

\* the exit status arrived: execute() reads the output and returns or
\* raises; within a bulk run enroll_user goes on to its second command, or
\* returns to the loop
execute_return ==
    /\ pc = "exec"
    /\ ~network.pending
    /\ LET r == execute_result(call.format, network.exit_code, network.stdout, network.stderr)
           bulk == op = "bulk_enroll_users"
           second == enroll_user_execute(targets[i + 1], arg_id, 2)
       IN IF r.raised
          THEN ExecuteRaises(bulk, r.err) /\ UNCHANGED << call, clients >>
          ELSE IF ~bulk
          THEN Return(r.val) /\ UNCHANGED << call, clients >>
          ELSE IF call.n = 1
          THEN /\ call' = second
               /\ BeginExec(clients, full_command(second.command, second.format), TRUE)
          ELSE BulkSuccess /\ UNCHANGED << call, clients >>
    /\ UNCHANGED << op, config, wp_cli, ssh_client, handshakes >>
    /\ SessionFrame

\* Variant of disconnect() that closes the client but keeps the handle.
disconnect_keeps_handle ==
    /\ pc = "idle"
    /\ wp_cli # NoneV
    /\ op' = "disconnect"
    /\ call' = [name |-> "disconnect"]
    /\ IF ssh_client # 0
       THEN clients' = [clients EXCEPT ![ssh_client].state = "closed"]
       ELSE UNCHANGED clients
    /\ Return(NoneV)
    /\ UNCHANGED << config, wp_cli, ssh_client, handshakes >>
    /\ SessionFrame

\* Variant of disconnect() that clears the handle without closing the client.
disconnect_without_close ==
    /\ pc = "idle"
    /\ wp_cli # NoneV
    /\ op' = "disconnect"
    /\ call' = [name |-> "disconnect"]
    /\ ssh_client' = 0
    /\ Return(NoneV)
    /\ UNCHANGED << config, wp_cli, clients, handshakes >>
    /\ SessionFrame

\* WPCLIClient.disconnect() called on the server's client
disconnect ==
    /\ pc = "idle"
    /\ wp_cli # NoneV
    /\ op' = "disconnect"
    /\ call' = [name |-> "disconnect"]
    /\ IF ssh_client # 0
       THEN /\ clients' = [clients EXCEPT ![ssh_client].state = "closed"]
            /\ ssh_client' = 0
       ELSE UNCHANGED << ssh_client, clients >>
    /\ Return(NoneV)
    /\ UNCHANGED << config, wp_cli, handshakes >>
    /\ SessionFrame

InitSession ==
    /\ op = ""
    /\ pc = "idle"
    /\ exc = ""
    /\ arg_id = IntV(1)
    /\ targets = << >>
    /\ i = 0
    /\ consecutive_failures = 0
    /\ results = EmptyReport(0)
    /\ executed = 0
    /\ processed = << >>
    /\ outcomes = << >>
    /\ call = NoCall
    /\ error = NoError
    /\ cmds = << >>
    /\ text = << >>
    /\ tokens = << >>
    /\ \E e \in StartEnvs : FreshProcess(e)

NextSession ==
    \/ get_clients
    \/ connect_call
    \/ execute_call
    \/ remote_answers
    \/ connect_return
    \/ execute_return
    \/ disconnect

SpecSession == InitSession /\ [][NextSession]_vars

-----------------------------------------------------------------------------
(* A bulk run on the session: bulk_enroll_users with each cli.execute of   *)
(* enroll_user split where it blocks, and the fairness the code provides   *)

MaxBulk == 6

\* the user_ids of a bulk run: up to MaxBulk valid ids, or an invalid id first
LiveTargets ==
    { [k \in 1..n |-> IntV(7)] : n \in 1..MaxBulk } \cup { << IntV(-3), IntV(7) >> }

\* bulk_enroll_users(user_ids, course_id) up to the loop
bulk_enroll_users_begin ==
    /\ pc = "idle"
    /\ wp_cli # NoneV
    /\ ssh_client # 0 \/ handshakes < MaxConnects
    /\ \E ids \in LiveTargets :
        LET v == _validate_positive_int(arg_id, "course_id", -1)
            l == ListError("user_ids", AList(ids))
        IN /\ op' = "bulk_enroll_users"
           /\ call' = [name |-> "bulk_enroll_users", n |-> 0]
           /\ IF ~v.ok THEN RaiseOut(v.err)
              ELSE IF l # NoError THEN RaiseOut(l)
              ELSE /\ targets' = ids
                   /\ i' = 0
                   /\ consecutive_failures' = 0
                   /\ results' = EmptyReport(Len(ids))
                   /\ pc' = "loop"
                   /\ exc' = ""
                   /\ error' = NoError
                   /\ returned' = NoneV
                   /\ network' = NoNetwork
    /\ UNCHANGED << config, wp_cli, ssh_client, clients, handshakes >>
    /\ SessionFrame

\* the body of iteration i up to the first cli.execute of enroll_user
bulk_enroll_users_body ==
    /\ pc = "loop"
    /\ op = "bulk_enroll_users"
    /\ LET user_id == targets[i + 1]
           v == _validate_positive_int(user_id, "user_ids", i)
           first == enroll_user_execute(user_id, arg_id, 1)
       IN IF ~v.ok
          THEN /\ BulkFailure(v.err)
               /\ UNCHANGED << call, ssh_client, clients, handshakes >>
          ELSE /\ call' = first
               /\ IF ssh_client # 0
                  THEN BeginExec(clients, full_command(first.command, first.format), TRUE)
                  ELSE BeginConnect
    /\ UNCHANGED << op, config, wp_cli >>
    /\ SessionFrame

NextLive ==
    \/ get_clients
    \/ connect_call
    \/ execute_call
    \/ remote_answers
    \/ connect_return
    \/ execute_return
    \/ disconnect
    \/ bulk_enroll_users_begin
    \/ bulk_enroll_users_body

\* the blocking call in flight was given a timeout
Timed == network.pending /\ network.timeout # NoneV

\* The interpreter goes on with a call as soon as the blocking call it waits
\* in has ended, and with a loop as soon as the body has ended.  A blocking
\* call is certain to end only if it was given a timeout; the remote end
\* itself owes no answer.
Fairness ==
    /\ WF_vars(connect_return)
    /\ WF_vars(execute_return)
    /\ WF_vars(bulk_enroll_users_body)
    /\ WF_vars(Timed /\ remote_answers)

SpecLive == InitSession /\ [][NextLive]_vars /\ Fairness

-----------------------------------------------------------------------------
(* Properties of the session *)

\* the session holds a client whose connection is open
Connected == ssh_client # 0 /\ clients[ssh_client].state = "open"

\* C11: connect() on a session whose connection is open is a no-op: every
\* connect() or execute() call that starts while the connection is open
\* starts no network handshake, constructs no client and leaves the handle
\* and its open connection as they are.
Claim11_ConnectOnOpenIsNoOp ==
    [][ (pc = "idle" /\ Connected /\ op' \in { "connect", "execute" })
        => /\ handshakes' = handshakes
           /\ ssh_client' = ssh_client
           /\ Len(clients') = Len(clients)
           /\ clients'[ssh_client].state = "open"
           /\ (op' = "connect" => clients' = clients) ]_vars

\* C11 witness: connect() has returned on a session whose open connection
\* had already carried a command, after a single handshake.
Claim11_Witness ==
    /\ op = "connect"
    /\ pc = "idle"
    /\ Connected
    /\ clients[ssh_client].used
    /\ handshakes = 1

\* the session holds a client on which SSHClient.connect raised
FailedConnectHeld == ssh_client # 0 /\ clients[ssh_client].state \in FailedStates

\* C12: after a connect() that failed the session is retryable: a connect()
\* call that starts while the session holds the client of the failed attempt
\* performs a new connection attempt, and exec_command is never called on a
\* client whose connection was never established.
Claim12_RetryableAfterFailedConnect ==
    [][ /\ (pc = "idle" /\ FailedConnectHeld /\ op' = "connect")
            => handshakes' = handshakes + 1
        /\ \A k \in 1..Len(clients') :
            clients'[k].state \in FailedStates => ~clients'[k].used ]_vars

\* C12, its two halves as states: connect() has returned without a new
\* attempt on the client of a failed attempt, and execute() has called
\* exec_command on such a client.
Claim12_NoRetry ==
    ~(op = "connect" /\ pc = "idle" /\ exc = "" /\ FailedConnectHeld /\ handshakes = 1)
Claim12_NoCommandOnFailedClient ==
    \A k \in 1..Len(clients) : clients[k].state \in FailedStates => ~clients[k].used

\* C13: disconnect() always leaves the session without a handle and without a
\* live connection and raises nothing, whatever it started from; started
\* without a handle (as a second disconnect() in a row is) it changes nothing
\* of the session.
Claim13_DisconnectClears ==
    [][ (pc = "idle" /\ op' = "disconnect")
        => /\ ssh_client' = 0
           /\ exc' = ""
           /\ pc' = "idle"
           /\ \A k \in 1..Len(clients') : clients'[k].state \notin LiveStates
           /\ handshakes' = handshakes
           /\ (ssh_client = 0 => clients' = clients) ]_vars

\* C13 witness: disconnect() has returned on a session whose only client,
\* left behind by a failed or a successful connect, is now closed.
Claim13_Witness ==
    /\ op = "disconnect"
    /\ pc = "idle"
    /\ ssh_client = 0
    /\ Len(clients) = 1
    /\ clients[1].state = "closed"

\* C14: at every point at most one client of the session has a live
\* underlying connection, and a client with a live connection is the one the
\* session references.
Claim14_AtMostOneLiveConnection ==
    /\ Cardinality({ k \in 1..Len(clients) : Live(k) }) <= 1
    /\ \A k \in 1..Len(clients) : Live(k) => ssh_client = k

\* C14 witness: the session reconnected after a disconnect: its first
\* client is closed and its second one is live and referenced.
Claim14_Witness ==
    /\ Len(clients) = 2
    /\ clients[1].state = "closed"
    /\ Live(2)
    /\ ssh_client = 2

\* execute() ends in this step with the exit status and the output in hand
ExecuteEnds == pc = "exec" /\ ~network.pending /\ pc' = "idle"

\* both captured streams are UTF-8
Utf8Output == Decodable(network.stdout) /\ Decodable(network.stderr)

\* the text the remote-command error is to carry: the captured stderr, or
\* the captured stdout when stderr is empty
CapturedError ==
    IF Strip(network.stderr) # << >> THEN Strip(network.stderr) ELSE Strip(network.stdout)

\* C15: whenever the remote exit status is non-zero, execute() returns no
\* value: it raises the remote-command error (WPCLIError), whatever the
\* output and the requested format, and the error carries the captured
\* stderr, or the captured stdout when stderr is empty.
Claim15_NonZeroExitRaisesRemoteError ==
    [][ (ExecuteEnds /\ network.exit_code # 0)
        => /\ exc' = "WPCLIError"
           /\ error'.got = StrV(CapturedError) ]_vars

\* C15 restricted to output that is UTF-8
Claim15_Utf8Output ==
    [][ (ExecuteEnds /\ network.exit_code # 0 /\ Utf8Output)
        => /\ exc' = "WPCLIError"
           /\ error'.got = StrV(CapturedError) ]_vars

\* C16: with the json format requested and exit status 0, execute() raises
\* nothing: it returns the decoded value when stdout is valid JSON and the
\* stdout text itself otherwise, malformed and empty output included.
Claim16_JsonFallsBackToText ==
    [][ (ExecuteEnds /\ network.exit_code = 0 /\ call.format = "json")
        => /\ exc' = ""
           /\ returned' = IF json_loads(Strip(network.stdout)).ok
                          THEN json_loads(Strip(network.stdout)).val
                          ELSE StrV(Strip(network.stdout)) ]_vars

\* C16 restricted to output that is UTF-8
Claim16_Utf8Output ==
    [][ (ExecuteEnds /\ network.exit_code = 0 /\ call.format = "json" /\ Utf8Output)
        => /\ exc' = ""
           /\ returned' = IF json_loads(Strip(network.stdout)).ok
                          THEN json_loads(Strip(network.stdout)).val
                          ELSE StrV(Strip(network.stdout)) ]_vars

\* the configuration of this process is one validate() reports errors for
InvalidConfig == validate(from_env(env)) # << >>

\* C17: across any sequence of get_clients() calls in one process a
\* configuration for which validate() reports errors is never used: every
\* get_clients() call raises the configuration error, no client is
\* constructed from the configuration and no connection is attempted.
Claim17_InvalidConfigNeverUsed ==
    InvalidConfig
        => /\ (op = "get_clients" => exc = "ValueError")
           /\ wp_cli = NoneV
           /\ handshakes = 0

\* C17 for the first get_clients() call of the process alone
Claim17_FirstCallRaises ==
    [][ (InvalidConfig /\ config = NoneV /\ op' = "get_clients")
        => (exc' = "ValueError" /\ wp_cli' = NoneV) ]_vars

\* neither a key path nor a password is configured
NoCredential ==
    ~Truthy(from_env(env).ssh_key_path) /\ ~Truthy(from_env(env).ssh_password)

\* C18: when neither a key path nor a password is configured, get_clients()
\* reports the missing credential as a configuration error and connect()
\* starts no network activity: no connection attempt is made and no
\* connection is opened.
Claim18_NoCredentialNoNetwork ==
    NoCredential
        => /\ (op = "get_clients" => exc = "ValueError")
           /\ handshakes = 0
           /\ \A k \in 1..Len(clients) : clients[k].state # "open"

\* a call is blocked in the network
Blocked == pc \in { "connect", "exec" }

\* a bulk run has started and has not returned its report
BulkRunning == op = "bulk_enroll_users" /\ pc # "idle"

\* the same session with a remote end that answers every call
SpecLiveAnswered == SpecLive /\ WF_vars(remote_answers)

\* C19: a connection attempt or remote command that never completes does
\* not block connect() or execute() forever: every blocked call eventually
\* ends, and a bulk run that is at target k eventually goes on to a later
\* target or returns its report.
Claim19_BlockedCallsEnd ==
    /\ Blocked ~> ~Blocked
    /\ \A k \in 0..MaxBulk : (BulkRunning /\ i = k) ~> (~BulkRunning \/ i > k)

-----------------------------------------------------------------------------
(* _validate_positive_int over values of every type                        *)

MaxInt == 20

\* integers, floats, booleans, None and strings
ValidatorValues ==
    { IntV(k) : k \in -MaxInt..MaxInt } \cup { FloatV(k) : k \in -MaxInt..MaxInt }
    \cup { BoolV(TRUE), BoolV(FALSE), NoneV }
    \cup { StrV(<< >>), StrV(<< "5" >>), StrV(<< "not_an_int" >>) }

ParamNames == { "course_id", "user_id" }

InitValidate ==
    /\ op = ""
    /\ pc = "idle"
    /\ exc = ""
    /\ arg_id = NoneV
    /\ targets = << >>
    /\ i = 0
    /\ consecutive_failures = 0
    /\ results = EmptyReport(0)
    /\ executed = 0
    /\ processed = << >>
    /\ outcomes = << >>
    /\ call \in { [name |-> "_validate_positive_int", value |-> v, param |-> p] :
                    v \in ValidatorValues, p \in ParamNames }
    /\ error = NoError
    /\ cmds = << >>
    /\ text = << >>
    /\ tokens = << >>
    /\ NoSession

\* self._validate_positive_int(value, name)
validate_positive_int_call ==
    /\ pc = "idle"
    /\ call.name = "_validate_positive_int"
    /\ op' = "_validate_positive_int"
    /\ LET r == _validate_positive_int(call.value, call.param, -1)
       IN IF r.ok
          THEN /\ pc' = "done"
               /\ returned' = r.val
               /\ exc' = ""
               /\ error' = NoError
          ELSE /\ pc' = "raised"
               /\ returned' = NoneV
               /\ exc' = r.err.exc
               /\ error' = r.err
    /\ UNCHANGED << arg_id, targets, executed, bulkvars, call, cmds, textvars,
                    env, config, wp_cli, ssh_client, clients, handshakes, network,
                    sitevars >>

\* the validated id is rendered with str() for a command
render_validated ==
    /\ pc = "done"
    /\ op = "_validate_positive_int"
    /\ pc' = "rendered"
    /\ text' = Str(returned)
    /\ UNCHANGED << op, exc, arg_id, targets, executed, bulkvars, opvars, tokens, sessvars >>

NextValidate == validate_positive_int_call \/ render_validated

SpecValidate == InitValidate /\ [][NextValidate]_vars

\* the call has returned or raised
Validated == op = "_validate_positive_int" /\ pc # "idle"

\* the call raised the validation error naming the parameter, with the
\* message and the value given
RaisedValidationError ==
    /\ pc = "raised"
    /\ exc = "ValueError"
    /\ error.param = call.param
    /\ error.msg = "must be a positive integer"
    /\ error.got = call.value

\* C20: over integers, strings, floats, booleans and None,
\* _validate_positive_int(v, name) returns v unchanged for every integer
\* v > 0, and raises the validation error with name, the text must be a
\* positive integer and v for every v <= 0 and every v that is not an integer.
Claim20_PositiveIntegersOnly ==
    Validated
        => IF call.value.t = "int" /\ call.value.n > 0
           THEN pc \in { "done", "rendered" } /\ returned = call.value
           ELSE RaisedValidationError

\* C20 with the booleans left out of the domain
Claim20_WithoutBooleans ==
    (Validated /\ call.value.t # "bool")
        => IF call.value.t = "int" /\ call.value.n > 0
           THEN pc \in { "done", "rendered" } /\ returned = call.value
           ELSE RaisedValidationError

-----------------------------------------------------------------------------
(* _validate_string with a configured maximum length                       *)

MaxLength == 3
MaxText == 4

StringChars == { "a", " " }

\* the strings of at most MaxText characters
BoundedStrings ==
    UNION { [1..n -> StringChars] : n \in 0..MaxText }

InitString ==
    /\ op = ""
    /\ pc = "idle"
    /\ exc = ""
    /\ arg_id = NoneV
    /\ targets = << >>
    /\ i = 0
    /\ consecutive_failures = 0
    /\ results = EmptyReport(0)
    /\ executed = 0
    /\ processed = << >>
    /\ outcomes = << >>
    /\ call \in { [name |-> "_validate_string", value |-> StrV(str), param |-> "title",
                   max_length |-> IntV(m), allow_empty |-> b] :
                    str \in BoundedStrings, m \in 0..MaxLength, b \in BOOLEAN }
    /\ error = NoError
    /\ cmds = << >>
    /\ text = << >>
    /\ tokens = << >>
    /\ NoSession

\* self._validate_string(value, name, max_length=M, allow_empty=...)
validate_string_call ==
    /\ pc = "idle"
    /\ call.name = "_validate_string"
    /\ op' = "_validate_string"
    /\ LET r == _validate_string(call.value, call.param, call.max_length, call.allow_empty)
       IN IF r.ok
          THEN /\ pc' = "done"
               /\ returned' = r.val
               /\ exc' = ""
               /\ error' = NoError
          ELSE /\ pc' = "raised"
               /\ returned' = NoneV
               /\ exc' = r.err.exc
               /\ error' = r.err
    /\ UNCHANGED << arg_id, targets, executed, bulkvars, call, cmds, textvars,
                    env, config, wp_cli, ssh_client, clients, handshakes, network,
                    sitevars >>

NextString == validate_string_call

SpecString == InitString /\ [][NextString]_vars

\* the call has returned or raised
StringValidated == op = "_validate_string" /\ pc # "idle"

\* C21: for every configured maximum M >= 0, every string longer than M
\* fails validation, and a non-blank string of length exactly M succeeds
\* and is returned unchanged.
Claim21_MaximumLengthEnforced ==
    StringValidated
        => /\ (Len(call.value.s) > call.max_length.n => pc = "raised")
           /\ (Len(call.value.s) = call.max_length.n /\ Strip(call.value.s) # << >>
                 => pc = "done" /\ returned = call.value)

\* C21 for a maximum of at least 1: the part of the statement the code meets
Claim21_PositiveMaximum ==
    StringValidated /\ call.max_length.n >= 1
        => /\ (Len(call.value.s) > call.max_length.n => pc = "raised")
           /\ (Len(call.value.s) = call.max_length.n /\ Strip(call.value.s) # << >>
                 => pc = "done" /\ returned = call.value)

-----------------------------------------------------------------------------
(* Operations that take a list of ids: create_group, reorder_lessons,      *)
(* reorder_topics, set_lesson_prerequisites, set_course_steps.             *)

MaxLessons == 2

LessonIdValues == { IntV(1), IntV(2), IntV(3), IntV(-1), IntV(0), BoolV(TRUE) }
IdLists == { NotAList } \cup { AList(s) : s \in SeqsUpTo(LessonIdValues, MaxLessons) }
ParentIds == { IntV(1), IntV(0) }

\* [self._validate_positive_int(x, f"name[{i}]") for i, x in enumerate(items)]:
\* the comprehension raises at the first element that is rejected
ValidateEach(items, name) ==
    [k \in 1..Len(items) |-> _validate_positive_int(items[k], name, k - 1)]

\* len(items) != len(set(items)): Python equality, under which True == 1
PyKey(value) == IF IsInstanceInt(value) THEN IntV(value.n) ELSE value
HasDuplicates(items) ==
    Cardinality({ PyKey(items[k]) : k \in 1..Len(items) }) # Len(items)

\* what cli.execute does on 'post meta get': it raises, or returns a value
LookupAnswers ==
    { [raised |-> TRUE, value |-> NoneV],
      [raised |-> FALSE, value |-> StrV(<< >>)],
      [raised |-> FALSE, value |-> IntV(1)],
      [raised |-> FALSE, value |-> IntV(9)],
      [raised |-> FALSE, value |-> StrV(<< "garbage" >>)] }

\* try: result = self.cli.execute(cmd); return result if result else None
\* except Exception: return None
_get_meta(answer) ==
    IF answer.raised THEN NoneV
    ELSE IF Truthy(answer.value) THEN answer.value
    ELSE NoneV

\* int(x) of a value the remote end returned
IntOf(value) ==
    IF value.t = "str"
    THEN IF value.s # << >> /\ \A k \in 1..Len(value.s) : value.s[k] \in JsonDigits
         THEN [ok |-> TRUE, n |-> JsonInt(value.s, 1, 0).val.n]
         ELSE [ok |-> FALSE, n |-> 0]
    ELSE [ok |-> TRUE, n |-> value.n]

\* if found and int(found) != parent: raise ValueError; an exception of
\* int() ends in the same ValueError
Disowns(found, parent) ==
    Truthy(found) /\ (~IntOf(found).ok \/ IntOf(found).n # parent.n)

\* f'post meta get {quote(str(post_id))} {quote(meta_key)}'
PostMetaGet(idp, meta_key) ==
    Cmd(<< Lit(<< "post", " ", "meta", " ", "get", " " >>), idp, Lit(<< " " >>),
           QuotedLit(<< meta_key >>) >>, "json")

\* f'post update {quote(str(id))} --menu_order={quote(str(menu_order))}'
PostUpdateOrder(idp, menu_order) ==
    Cmd(<< Lit(<< "post", " ", "update", " " >>), idp, Lit(<< " ", "--menu_order=" >>),
           Quoted("static", "menu_order", "integer", Str(IntV(menu_order)), "") >>, "json")

IsPostUpdate(c) == c.parts[1] = Lit(<< "post", " ", "update", " " >>)

MinOf(S) == CHOOSE k \in S : \A j \in S : k <= j

OwnershipError(list_name, k, id) ==
    ValueError(list_name, -1, "Could not verify ownership", id)

DuplicateError(list_name, order) ==
    ValueError(list_name, -1, "contains duplicate IDs", order)

\* reorder_lessons / reorder_topics: answers[k] is what the lookup of the
\* k-th element gets, failAt the update command that fails (0: none)
Reorder(parent, order, parent_name, list_name, meta_key, answers, failAt) ==
    LET vp == _validate_positive_int(parent, parent_name, -1)
        vs == ValidateEach(order.items, list_name)
        n == Len(order.items)
        idp(k) == Quoted("caller", list_name, "integer", Str(vs[k].val), vs[k].by)
        bad == { k \in 1..n : Disowns(_get_meta(answers[k]), vp.val) }
        stop == IF bad = {} THEN 0 ELSE MinOf(bad)
        lookups == [k \in 1..(IF stop = 0 THEN n ELSE stop) |-> PostMetaGet(idp(k), meta_key)]
        updates == [k \in 1..n |-> PostUpdateOrder(idp(k), k - 1)]
        written == Execute(updates, [failAt |-> failAt])
    IN  IF ~vp.ok THEN Raise(vp.err, << >>)
        ELSE IF ListError(list_name, order) # NoError
        THEN Raise(ListError(list_name, order), << >>)
        ELSE IF HasDuplicates(order.items) THEN Raise(DuplicateError(list_name, order), << >>)
        ELSE IF FirstError(vs) # NoError THEN Raise(FirstError(vs), << >>)
        ELSE IF stop # 0
        THEN Raise(OwnershipError(list_name, stop, vs[stop].val), lookups)
        ELSE [written EXCEPT !.cmds = lookups \o @]

reorder_lessons(course_id, lesson_order, answers, failAt) ==
    Reorder(course_id, lesson_order, "course_id", "lesson_order", "course_id",
            answers, failAt)

reorder_topics(lesson_id, topic_order, answers, failAt) ==
    Reorder(lesson_id, topic_order, "lesson_id", "topic_order", "lesson_id",
            answers, failAt)

\* ','.join(map(str, ids))
RECURSIVE JoinText(_)
JoinText(ids) ==
    IF ids = << >> THEN << >>
    ELSE Str(Head(ids)) \o (IF Len(ids) > 1 THEN << "," >> ELSE << >>) \o JoinText(Tail(ids))

CircularError(lesson_id) ==
    ValueError("prerequisite_lesson_ids", -1, "Circular dependency", lesson_id)

\* the loop of set_lesson_prerequisites: each element is validated and then
\* compared with lesson_id before the next element is looked at
RECURSIVE PrerequisiteChecks(_, _, _)
PrerequisiteChecks(items, k, lesson_id) ==
    IF k > Len(items) THEN << >>
    ELSE LET v == _validate_positive_int(items[k], "prerequisite_lesson_ids", k - 1)
         IN << v,
               IF v.ok /\ v.val.n = lesson_id.n
               THEN [ok |-> FALSE, val |-> v.val, by |-> "", err |-> CircularError(lesson_id)]
               ELSE Unvalidated(v.val) >>
            \o PrerequisiteChecks(items, k + 1, lesson_id)

\* f'post meta delete {quote(str(id))} {quote(key)}'
PostMetaDelete(idp, key) ==
    Cmd(<< Lit(<< "post", " ", "meta", " ", "delete", " " >>), idp, Lit(<< " " >>),
           QuotedLit(<< key >>) >>, "json")

\* what the remote site stores once the commands of cmdseq have run
RECURSIVE Stored(_, _)
Stored(meta, cmdseq) ==
    IF cmdseq = << >> THEN meta
    ELSE LET c == Head(cmdseq)
             key == c.parts[4].raw[1]
             after == IF c.parts[1].raw[5] = "delete"
                      THEN [meta EXCEPT ![key] = NoneV]
                      ELSE [meta EXCEPT ![key] = StrV(c.parts[6].raw)]
         IN Stored(after, Tail(cmdseq))

\* one key for a single prerequisite, the other for several, both deleted
\* for none; a command that fails stores nothing
set_lesson_prerequisites(lesson_id, prerequisite_lesson_ids, failAt) ==
    LET vl == _validate_positive_int(lesson_id, "lesson_id", -1)
        items == prerequisite_lesson_ids.items
        e == FirstError(PrerequisiteChecks(items, 1, vl.val))
        idp == Quoted("caller", "lesson_id", "integer", Str(vl.val), vl.by)
        plan ==
            IF Len(items) = 1
            THEN << PostMetaUpdate(idp, Lit(quote(<< "lesson_prerequisite" >>)),
                       Quoted("caller", "prerequisite_lesson_ids", "integer",
                              Str(items[1]), "_validate_positive_int")) >>
            ELSE IF Len(items) > 1
            THEN << PostMetaUpdate(idp, Lit(quote(<< "lesson_prerequisites" >>)),
                       Quoted("caller", "prerequisite_lesson_ids", "integer",
                              JoinText(items), "_validate_positive_int")) >>
            ELSE << PostMetaDelete(idp, "lesson_prerequisite"),
                    PostMetaDelete(idp, "lesson_prerequisites") >>
    IN  IF ~vl.ok THEN Raise(vl.err, << >>)
        ELSE IF ~prerequisite_lesson_ids.list
        THEN Raise(ValueError("prerequisite_lesson_ids", -1, "must be a list",
                              prerequisite_lesson_ids), << >>)
        ELSE IF e # NoError THEN Raise(e, << >>)
        ELSE Execute(plan, [failAt |-> failAt])

\* course_ids is None or a list; the ids are validated only 'if course_ids'
create_group(title, description, course_ids, remote) ==
    LET vt == _validate_string(title, "title", IntV(TITLE_MAX_LENGTH), FALSE)
        vd == IF Truthy(description)
              THEN _validate_string(description, "description", IntV(CONTENT_MAX_LENGTH), TRUE)
              ELSE Unvalidated(description)
        vs == ValidateEach(course_ids.items, "course_ids")
        e == FirstError(<< vt, vd >> \o vs)
        create ==
            Cmd(<< Lit(<< "post", " ", "create", " ", "--post_type=groups", " ",
                         "--post_title=" >>),
                   Quoted("caller", "title", "string", vt.val.s, vt.by),
                   Lit(<< " ", "--post_status=publish" >>) >>
                \o (IF Truthy(description)
                    THEN << Lit(<< " ", "--post_content=" >>),
                            Quoted("caller", "description", "string", vd.val.s, vd.by) >>
                    ELSE << >>), "json")
        associate(k) ==
            Cmd(<< Lit(<< "post", " ", "meta", " ", "add", " " >>), CreatedId, Lit(<< " " >>),
                   Quoted("caller", "course_ids", "integer",
                          << "learndash_group_enrolled_" >> \o Str(vs[k].val), vs[k].by),
                   Lit(<< " " >>),
                   Quoted("caller", "course_ids", "integer", Str(vs[k].val), vs[k].by) >>,
                "json")
        plan == << create >> \o [k \in 1..Len(course_ids.items) |-> associate(k)]
    IN  IF e # NoError THEN Raise(e, << >>) ELSE ExecuteCreate(plan, remote)

\* "array(" + ",".join(map(str, validated_lessons)) + ")"
RECURSIVE JoinLessonIds(_, _)
JoinLessonIds(items, k) ==
    IF k > Len(items) THEN << >>
    ELSE (IF k > 1 THEN << Lit(<< "," >>) >> ELSE << >>)
         \o << Bare("caller", "lesson_ids", "integer", Str(items[k]),
                    _validate_positive_int(items[k], "lesson_ids", k - 1).by) >>
         \o JoinLessonIds(items, k + 1)

set_course_steps(course_id, lesson_ids, enable_shared_steps, remote) ==
    LET vc == _validate_positive_int(course_id, "course_id", -1)
        vs == ValidateEach(lesson_ids.items, "lesson_ids")
        php_code ==
            << Lit(<< "\n" >>) >>
            \o PhpAssign("course_id",
                   Bare("caller", "course_id", "integer", Str(vc.val), vc.by))
            \o << Lit(<< "$", "lesson_ids", " ", "=", " ", "array", "(" >>) >>
            \o JoinLessonIds(lesson_ids.items, 1)
            \o << Lit(<< ")", ";", "\n" >>) >>
            \o PhpAssign("enable_shared_steps",
                   Lit(IF Truthy(enable_shared_steps) THEN << "true" >> ELSE << "false" >>))
            \o << PhpRest >>
    IN  IF ~vc.ok THEN Raise(vc.err, << >>)
        ELSE IF ~lesson_ids.list \/ lesson_ids.items = << >>
        THEN Raise(ValueError("lesson_ids", -1, "must be a non-empty list", lesson_ids), << >>)
        ELSE IF FirstError(vs) # NoError THEN Raise(FirstError(vs), << >>)
        ELSE Execute(<< [Eval(php_code) EXCEPT !.format = "none"] >>, remote)

-----------------------------------------------------------------------------
(* Calls of the list operations.  set_lesson_prerequisites is called any   *)
(* number of times on the lesson whose post meta is observed, each call    *)
(* after the earlier ones have succeeded.                                  *)

procvars == << env, config, wp_cli, ssh_client, clients, handshakes, network, returned >>

\* what a call leaves behind, the post meta of the observed lesson included
StepsCall(args, res, meta) ==
    /\ op' = args.name
    /\ call' = args
    /\ error' = res.err
    /\ cmds' = res.cmds
    /\ executed' = Len(res.cmds)
    /\ pc' = IF res.raised THEN "raised" ELSE "done"
    /\ exc' = res.err.exc
    /\ post_meta' = meta
    /\ UNCHANGED << arg_id, targets, bulkvars, textvars, procvars, tasks, loop >>

IsLookup(c) == ~IsPostUpdate(c)

\* the call with the answers the lookups got and the update that failed
ReorderCall(name, parent_name, list_name, parent, order, answers, res) ==
    LET asked == Len(SelectSeq(res.cmds, IsLookup))
        args == (parent_name :> parent) @@ (list_name :> order)
                @@ [name |-> name, answers |-> SubSeq(answers, 1, asked),
                    failAt |-> IF res.err = WPCLIError THEN Len(res.cmds) - asked ELSE 0]
    IN  StepsCall(args, res, post_meta)

reorder_lessons_call ==
    /\ pc = "idle"
    /\ \E course_id \in ParentIds, lesson_order \in IdLists, failAt \in 0..MaxLessons :
        \E answers \in [1..Len(lesson_order.items) -> LookupAnswers] :
            ReorderCall("reorder_lessons", "course_id", "lesson_order", course_id,
                        lesson_order, answers,
                        reorder_lessons(course_id, lesson_order, answers, failAt))

reorder_topics_call ==
    /\ pc = "idle"
    /\ \E lesson_id \in ParentIds, topic_order \in IdLists, failAt \in 0..MaxLessons :
        \E answers \in [1..Len(topic_order.items) -> LookupAnswers] :
            ReorderCall("reorder_topics", "lesson_id", "topic_order", lesson_id,
                        topic_order, answers,
                        reorder_topics(lesson_id, topic_order, answers, failAt))

ObservedLesson == IntV(2)
LessonArgs == { ObservedLesson, IntV(0) }
PrerequisiteValues == { IntV(1), IntV(3), ObservedLesson, IntV(0) }
PrerequisiteLists ==
    { NotAList } \cup { AList(s) : s \in SeqsUpTo(PrerequisiteValues, MaxLessons) }

set_lesson_prerequisites_call ==
    /\ pc \in { "idle", "done" }
    /\ op \in { "", "set_lesson_prerequisites" }
    /\ \E lesson_id \in LessonArgs, prerequisite_lesson_ids \in PrerequisiteLists,
          failAt \in 0..2 :
        LET res == set_lesson_prerequisites(lesson_id, prerequisite_lesson_ids, failAt)
            done == IF res.err = WPCLIError
                    THEN SubSeq(res.cmds, 1, Len(res.cmds) - 1)
                    ELSE res.cmds
        IN  StepsCall([name |-> "set_lesson_prerequisites", lesson_id |-> lesson_id,
                       prerequisite_lesson_ids |-> prerequisite_lesson_ids,
                       failAt |-> IF res.err = WPCLIError THEN Len(res.cmds) ELSE 0],
                      res, Stored(post_meta, done))

GroupTitles == { StrV(<< "G" >>), StrV(<< >>) }
Descriptions == { StrV(<< >>), StrV(<< "d" >>) }

create_group_call ==
    /\ pc = "idle"
    /\ \E title \in GroupTitles, description \in Descriptions, course_ids \in IdLists,
          remote \in Remotes :
        StepsCall([name |-> "create_group", title |-> title, description |-> description,
                   course_ids |-> course_ids],
                  create_group(title, description, course_ids, remote), post_meta)

set_course_steps_call ==
    /\ pc = "idle"
    /\ \E course_id \in ParentIds, lesson_ids \in IdLists, enable_shared_steps \in Flags,
          remote \in Remotes :
        StepsCall([name |-> "set_course_steps", course_id |-> course_id,
                   lesson_ids |-> lesson_ids, enable_shared_steps |-> enable_shared_steps],
                  set_course_steps(course_id, lesson_ids, enable_shared_steps, remote),
                  post_meta)

NextSteps ==
    \/ reorder_lessons_call
    \/ reorder_topics_call
    \/ set_lesson_prerequisites_call
    \/ create_group_call
    \/ set_course_steps_call
    \/ migrate_students_call

SpecSteps == Init /\ [][NextSteps]_vars

-----------------------------------------------------------------------------
(* Properties of the list operations *)

CollectionOps ==
    { "create_group", "reorder_lessons", "reorder_topics", "set_lesson_prerequisites",
      "set_course_steps", "migrate_students" }

\* the list argument of a call and the name it is reported under
CollectionOf(c) ==
    CASE c.name = "create_group" -> c.course_ids
      [] c.name = "reorder_lessons" -> c.lesson_order
      [] c.name = "reorder_topics" -> c.topic_order
      [] c.name = "set_lesson_prerequisites" -> c.prerequisite_lesson_ids
      [] c.name = "set_course_steps" -> c.lesson_ids
      [] OTHER -> c.user_ids

CollectionName(c) ==
    CASE c.name = "create_group" -> "course_ids"
      [] c.name = "reorder_lessons" -> "lesson_order"
      [] c.name = "reorder_topics" -> "topic_order"
      [] c.name = "set_lesson_prerequisites" -> "prerequisite_lesson_ids"
      [] c.name = "set_course_steps" -> "lesson_ids"
      [] OTHER -> "user_ids"

\* the element is not a positive integer
InvalidElement(value) == ~(IsInstanceInt(value) /\ value.n > 0)

\* the outcome of the call names element k as invalid
ReportedInvalid(k) ==
    /\ pc = "raised"
    /\ error.exc = "ValueError"
    /\ error.param = CollectionName(call)
    /\ error.idx = k - 1

\* a call of one of the list operations has ended
CollectionCallEnded == op \in CollectionOps /\ pc \in { "done", "raised" }

\* the validation of the elements has rejected the call
ElementRejected ==
    error.exc = "ValueError" /\ error.msg = "must be a positive integer" /\ error.idx >= 0

\* C22: for every operation that takes a collection of identifiers, every
\* element of the collection is validated and every invalid element is
\* reported in the outcome, not only the first one.
Claim22_EveryInvalidElementReported ==
    CollectionCallEnded /\ ElementRejected
        => \A k \in 1..Len(CollectionOf(call).items) :
              InvalidElement(CollectionOf(call).items[k]) => ReportedInvalid(k)

\* what the list operations do report: when the validation of the elements
\* rejects the call, the error names the first invalid element
Claim22_FirstInvalidElementReported ==
    CollectionCallEnded /\ ElementRejected
        => LET items == CollectionOf(call).items
               invalid == { k \in 1..Len(items) : InvalidElement(items[k]) }
           IN  invalid # {} /\ error.idx = MinOf(invalid) - 1

\* the 'post update' commands of the call, in the order they were issued
Writes == SelectSeq(cmds, IsPostUpdate)

\* an integer greater than 0 (True and False are booleans)
PositiveInteger(value) == value.t = "int" /\ value.n > 0

\* the request passed its checks, where Accepted(v) says that v is an
\* acceptable id: the course id is valid, the list is non-empty and has no
\* duplicate, every id is acceptable, and no lookup reported another course
ChecksPassed(Accepted(_)) ==
    LET items == call.lesson_order.items IN
    /\ _validate_positive_int(call.course_id, "course_id", -1).ok
    /\ call.lesson_order.list
    /\ items # << >>
    /\ ~HasDuplicates(items)
    /\ \A k \in 1..Len(items) : Accepted(items[k])
    /\ \A k \in 1..Len(call.answers) : ~Disowns(_get_meta(call.answers[k]), call.course_id)

\* the k-th write assigns menu_order k - 1 to the k-th lesson of the list
WritesInListOrder ==
    \A k \in 1..Len(Writes) :
        /\ k <= Len(call.lesson_order.items)
        /\ Writes[k].parts[2].raw = Str(call.lesson_order.items[k])
        /\ Writes[k].parts[4].raw = Str(IntV(k - 1))

ReorderLessonsEnded == op = "reorder_lessons" /\ pc \in { "done", "raised" }

ReorderGuarded(Accepted(_)) ==
    ReorderLessonsEnded
        => /\ (Writes # << >> => ChecksPassed(Accepted))
           /\ WritesInListOrder
           /\ (ChecksPassed(Accepted)
                 => /\ pc = "done" \/ error = WPCLIError
                    /\ (pc = "done" => Len(Writes) = Len(call.lesson_order.items)))

\* C29: reorder_lessons issues no 'post update' command unless the whole
\* request passed its checks (the list is non-empty, has no duplicate id,
\* every id is a positive integer, no lesson is reported by the lookup as
\* belonging to a different course); when the checks pass, the lesson at
\* list index i is assigned menu_order i.
Claim29_NoWriteUnlessChecked == ReorderGuarded(PositiveInteger)

PassesValidator(value) == _validate_positive_int(value, "lesson_order", -1).ok

\* C29 with 'every id passes _validate_positive_int' in the place of 'every
\* id is a positive integer'
Claim29_AsValidated == ReorderGuarded(PassesValidator)

\* the two keys together represent the list items and nothing else
Represents(meta, items) ==
    CASE Len(items) = 0 ->
           meta.lesson_prerequisite = NoneV /\ meta.lesson_prerequisites = NoneV
      [] Len(items) = 1 ->
           /\ meta.lesson_prerequisite = StrV(Str(items[1]))
           /\ meta.lesson_prerequisites = NoneV
      [] OTHER ->
           /\ meta.lesson_prerequisites = StrV(JoinText(items))
           /\ meta.lesson_prerequisite = NoneV

\* the list of the call contains the lesson itself
OwnPrerequisite ==
    \E k \in 1..Len(call.prerequisite_lesson_ids.items) :
        PyKey(call.prerequisite_lesson_ids.items[k]) = PyKey(call.lesson_id)

\* C30: after any sequence of successful set_lesson_prerequisites calls on
\* one lesson, the prerequisite metadata stored for it (both keys taken
\* together) represents exactly the list of the most recent call, with no
\* value of an earlier call remaining; an empty list leaves both keys
\* deleted, and a list containing the lesson itself is rejected before any
\* remote command.
Claim30_StoredPrerequisitesAreLastList ==
    op = "set_lesson_prerequisites"
        => /\ (pc = "done"
                 => Represents(post_meta, call.prerequisite_lesson_ids.items))
           /\ (OwnPrerequisite => pc = "raised" /\ cmds = << >>)

\* the key the call writes holds the list of the call
KeyOfCallHolds(meta, items) ==
    CASE Len(items) = 0 ->
           meta.lesson_prerequisite = NoneV /\ meta.lesson_prerequisites = NoneV
      [] Len(items) = 1 -> meta.lesson_prerequisite = StrV(Str(items[1]))
      [] OTHER -> meta.lesson_prerequisites = StrV(JoinText(items))

\* what set_lesson_prerequisites does keep: the key it writes holds the
\* list of the most recent call, an empty list deletes both keys, and a
\* list containing the lesson itself is rejected before any command
Claim30_WrittenKeyHoldsLastList ==
    op = "set_lesson_prerequisites"
        => /\ (pc = "done"
                 => KeyOfCallHolds(post_meta, call.prerequisite_lesson_ids.items))
           /\ (OwnPrerequisite => pc = "raised" /\ cmds = << >>)

-----------------------------------------------------------------------------
(* The title inside the command text of create_course                      *)

\* needle occurs in hay as a contiguous run
Contains(hay, needle) ==
    \E k \in 0..(Len(hay) - Len(needle)) : SubSeq(hay, k + 1, k + Len(needle)) = needle

\* the string has a character shlex.quote does not leave bare
HasMetacharacter(str) == \E k \in 1..Len(str) : str[k] \in UnsafeChars

\* create_course has handed its command to the executor
CreateCourseSent == op = "create_course" /\ pc \in { "quoted", "read" }

\* the command text create_course passed to execute: the line sent to the
\* remote shell without "cd <path> && wp " and " --format=json"
ExecutorCommand == SubSeq(text, Len(full_command(<< >>, "none")) + 1, Len(text) - 2)

-----------------------------------------------------------------------------
(* The counter, the order of the targets and the aborted flag of a bulk run *)

\* the number of failures at the end of the pattern, after the last success
RECURSIVE TrailingFailures(_)
TrailingFailures(pattern) ==
    IF pattern = << >> \/ pattern[Len(pattern)] = "S" THEN 0
    ELSE 1 + TrailingFailures(SubSeq(pattern, 1, Len(pattern) - 1))

\* the loop of a bulk run is between two targets, or the run has returned
RunAtTarget == op \in BulkOps /\ LoopStarted /\ pc \in { "loop", "done" }

\* C24: at every point of a bulk run the consecutive-failure counter equals
\* the number of failed targets (validation failures and execution failures
\* alike) processed since the most recent successful target, or since the
\* start if none succeeded.
Claim24_CounterIsTrailingFailures ==
    RunAtTarget => consecutive_failures = TrailingFailures(outcomes)

\* C24 witness: after a validation failure, an execution failure, a success
\* and one more failure the counter is 1
Claim24_Witness ==
    /\ RunAtTarget
    /\ op = "bulk_enroll_users"
    /\ outcomes = << "F", "F", "S", "F" >>
    /\ consecutive_failures = 1
    /\ results.entries[1].error.exc = "ValueError"
    /\ results.entries[2].error.exc = "WPCLIError"

\* C25: a bulk run attempts its targets strictly in list order and each
\* target at most once: the targets attempted so far are the first ones of
\* the list, each with its outcome, and the next one attempted is the one
\* after them.
Claim25_InListOrderOnce ==
    (op \in BulkOps /\ LoopStarted)
        => /\ processed = [k \in 1..Len(processed) |-> k - 1]
           /\ Len(processed) <= Len(targets)
           /\ Len(outcomes) = Len(processed)
           /\ i = Len(processed)

\* C25 witness: a run went on to the third target after the first two failed
Claim25_Witness ==
    /\ op \in BulkOps
    /\ pc = "loop"
    /\ outcomes = << "F", "F", "S" >>
    /\ processed = << 0, 1, 2 >>

\* the last n outcomes are failures
LastFailed(n) ==
    /\ Len(outcomes) >= n
    /\ \A k \in (Len(outcomes) - n + 1)..Len(outcomes) : outcomes[k] = "F"

\* C28: aborted is true in a bulk report exactly when the last five
\* processed targets all failed, also when the fifth consecutive failure is
\* the final target of the list.
Claim28_AbortedIffLastFiveFailed ==
    (op \in BulkOps /\ LoopStarted /\ pc = "done")
        => (results.aborted <=> LastFailed(MAX_CONSECUTIVE_FAILURES))

\* C28 witness: the fifth consecutive failure was the last target of the
\* list; every target was attempted and the report says aborted
Claim28_Witness ==
    /\ op \in BulkOps
    /\ pc = "done"
    /\ Len(processed) = Len(targets)
    /\ Len(targets) > MAX_CONSECUTIVE_FAILURES
    /\ results.aborted

-----------------------------------------------------------------------------
(* The credentials connect() hands to SSHClient.connect                    *)

\* the arguments with which client k was connected
KwargsOf(k) == clients[k].kwargs

\* the connection of client k is made with the configured key alone
KeyOnly(k) ==
    /\ "key_filename" \in DOMAIN KwargsOf(k)
    /\ KwargsOf(k)["key_filename"] = wp_cli.config.ssh_key_path
    /\ "password" \notin DOMAIN KwargsOf(k)

\* the connection of client k is made with the configured password, with
\* key lookup and agent use disabled
PasswordOnly(k) ==
    /\ "password" \in DOMAIN KwargsOf(k)
    /\ KwargsOf(k)["password"] = wp_cli.config.ssh_password
    /\ "key_filename" \notin DOMAIN KwargsOf(k)
    /\ "look_for_keys" \in DOMAIN KwargsOf(k)
    /\ KwargsOf(k)["look_for_keys"] = BoolV(FALSE)
    /\ "allow_agent" \in DOMAIN KwargsOf(k)
    /\ KwargsOf(k)["allow_agent"] = BoolV(FALSE)

\* C26: connect() uses exactly one credential strategy: when a key path is
\* configured the connection is made with the key and the password is not
\* passed, even if one is also configured; otherwise, when a password is
\* configured, the connection is made with the password and with key lookup
\* and agent use both disabled.
Claim26_OneCredentialStrategy ==
    \A k \in 1..Len(clients) :
        /\ Truthy(wp_cli.config.ssh_key_path) => KeyOnly(k)
        /\ (~Truthy(wp_cli.config.ssh_key_path) /\ Truthy(wp_cli.config.ssh_password))
              => PasswordOnly(k)

\* C26 witness: with a key path and a password both configured, a
\* connection was opened with the key
Claim26_Witness ==
    /\ Len(clients) > 0
    /\ Truthy(env.WP_SSH_KEY_PATH)
    /\ Truthy(env.WP_SSH_PASSWORD)
    /\ clients[1].state = "open"
    /\ KeyOnly(1)

-----------------------------------------------------------------------------
(* Concurrent tool calls.  The server runs every call_tool coroutine on one *)
(* asyncio event loop (asyncio.run(main()), server.run); a coroutine gives  *)
(* the loop to another one only at an await, and call_tool has none: every  *)
(* manager and client method it calls is an ordinary blocking function.     *)
(* tasks[t].pc is the position of call t: "none" (not requested),           *)
(* "pending" (requested, the coroutine has not started), "execute" (about   *)
(* to call cli.execute), "construct" (connect() found no client),           *)
(* "connect" (blocked in SSHClient.connect), "send" (connected, about to    *)
(* send the command), "exec" (blocked in recv_exit_status), "finish"        *)
(* (about to return its result or its error text), "done".                  *)

MaxCommands == 2

\* Variant of the scheduling in which the handlers run on threads of their
\* own: a call may take a step whatever the other calls are doing.
CanRun_on_threads(t) == TRUE

\* the event loop is free, or is running the coroutine of call t
CanRun(t) == loop \in { 0, t }

TaskFrame ==
    UNCHANGED << op, pc, exc, arg_id, targets, bulkvars, opvars, textvars, executed,
                 env, network, returned, post_meta >>

\* call t moves on to position p with the event loop
Goto(t, p) ==
    /\ tasks' = [tasks EXCEPT ![t].pc = p]
    /\ loop' = t

\* a tool call arrives; it will issue left remote commands if none fails
request(t) ==
    /\ tasks[t].pc = "none"
    /\ \E n \in 1..MaxCommands :
          tasks' = [tasks EXCEPT ![t] = [pc |-> "pending", left |-> n, saw_none |-> FALSE]]
    /\ UNCHANGED << loop, config, wp_cli, ssh_client, clients, handshakes >>
    /\ TaskFrame

\* the coroutine starts: cli, api, img_opt, ld, wc, backup = get_clients()
call_tool(t) ==
    /\ tasks[t].pc = "pending"
    /\ CanRun(t)
    /\ LET cfg == IF config = NoneV THEN from_env(env) ELSE config
           errors == IF config = NoneV THEN validate(cfg) ELSE << >>
       IN /\ config' = cfg
          /\ IF errors # << >>
             THEN Goto(t, "finish") /\ UNCHANGED wp_cli
             ELSE /\ Goto(t, "execute")
                  /\ wp_cli' = IF wp_cli = NoneV THEN WPCLIClient(cfg) ELSE wp_cli
    /\ UNCHANGED << ssh_client, clients, handshakes >>
    /\ TaskFrame

\* cli.execute: self.connect(), whose first line is the check
\* 'if self.ssh_client is not None: return'
connect_check(t) ==
    /\ tasks[t].pc = "execute"
    /\ CanRun(t)
    /\ IF ssh_client # 0
       THEN Goto(t, "send")
       ELSE /\ tasks' = [tasks EXCEPT ![t].pc = "construct", ![t].saw_none = TRUE]
            /\ loop' = t
    /\ UNCHANGED << config, wp_cli, ssh_client, clients, handshakes >>
    /\ TaskFrame

\* self.ssh_client = paramiko.SSHClient() ... self.ssh_client.connect(...)
connect_begin(t) ==
    /\ tasks[t].pc = "construct"
    /\ CanRun(t)
    /\ clients' = Append(clients, SSHClient(connect_kwargs(wp_cli.config)))
    /\ ssh_client' = Len(clients) + 1
    /\ handshakes' = handshakes + 1
    /\ Goto(t, "connect")
    /\ UNCHANGED << config, wp_cli >>
    /\ TaskFrame

\* SSHClient.connect returns or raises; call_tool turns an exception into
\* the text it returns
connect_end(t) ==
    /\ tasks[t].pc = "connect"
    /\ CanRun(t)
    /\ \E status \in ConnectAnswers :
        LET k == CHOOSE j \in 1..Len(clients) : clients[j].state = "connecting"
        IN /\ clients' = [clients EXCEPT ![k].state = ConnectState(status)]
           /\ Goto(t, IF status = "ok" THEN "send" ELSE "finish")
    /\ UNCHANGED << config, wp_cli, ssh_client, handshakes >>
    /\ TaskFrame

\* exec_command and recv_exit_status on the client the session holds;
\* exec_command raises on a client that is not connected
exec_begin(t) ==
    /\ tasks[t].pc = "send"
    /\ CanRun(t)
    /\ clients' = [clients EXCEPT ![ssh_client].used = TRUE]
    /\ Goto(t, IF clients[ssh_client].state = "open" THEN "exec" ELSE "finish")
    /\ UNCHANGED << config, wp_cli, ssh_client, handshakes >>
    /\ TaskFrame

\* the command exits: on a non-zero status execute raises, otherwise the
\* handler goes on to its next command or to its return
exec_end(t) ==
    /\ tasks[t].pc = "exec"
    /\ CanRun(t)
    /\ \E exit_code \in ExitCodes :
          /\ tasks' = [tasks EXCEPT
                         ![t].left = @ - 1,
                         ![t].pc = IF exit_code # 0 \/ tasks[t].left = 1
                                   THEN "finish" ELSE "execute"]
          /\ loop' = t
    /\ UNCHANGED << config, wp_cli, ssh_client, clients, handshakes >>
    /\ TaskFrame

\* return [TextContent(...)]: the coroutine ends and the loop is free
return_result(t) ==
    /\ tasks[t].pc = "finish"
    /\ CanRun(t)
    /\ tasks' = [tasks EXCEPT ![t].pc = "done"]
    /\ loop' = 0
    /\ UNCHANGED << config, wp_cli, ssh_client, clients, handshakes >>
    /\ TaskFrame

NextServer ==
    \E t \in 1..MaxCalls :
        \/ request(t)
        \/ call_tool(t)
        \/ connect_check(t)
        \/ connect_begin(t)
        \/ connect_end(t)
        \/ exec_begin(t)
        \/ exec_end(t)
        \/ return_result(t)

SpecServer == Init /\ [][NextServer]_vars

\* call t is blocked in a remote call on the shared session
InFlight(t) == tasks[t].pc \in { "connect", "exec" }

\* the coroutine of call t has started and has not returned
Started(t) == tasks[t].pc \notin { "none", "pending", "done" }

\* C27: no two remote commands are ever in flight at the same time on the
\* session shared by the server: concurrent tool calls are serialized, so
\* that all remote commands of one call complete before any command of
\* another call starts, and two calls never both pass the 'not yet
\* connected' check of connect().
Claim27_CallsSerialized ==
    /\ Cardinality({ t \in 1..MaxCalls : InFlight(t) }) <= 1
    /\ Cardinality({ t \in 1..MaxCalls : Started(t) }) <= 1
    /\ Cardinality({ t \in 1..MaxCalls : tasks[t].saw_none }) <= 1
    /\ Cardinality({ k \in 1..Len(clients) : clients[k].state = "connecting" }) <= 1

\* C27 witness: while one call is blocked in its last remote command,
\* another call has been requested and waits for the event loop
Claim27_Witness ==
    \E t, u \in 1..MaxCalls :
        /\ tasks[t].pc = "exec"
        /\ tasks[t].left = 1
        /\ tasks[u].pc = "pending"

====
